---- MODULE Spec2Model ----
(***************************************************************************)
(* A state-machine model of the waveform viewport engine: the Renderer     *)
(* (src/src/renderer.ts), the pointer drag tracker makeDraggable           *)
(* (src/unnamed/part_004 lines 1-223, and the frame-deferred variant of    *)
(* src/src/draggable.ts lines 232-516), the browser's event dispatch,      *)
(* animation-frame queue and timers, and the inertial scroll controller    *)
(* (Lenis, a third-party library described by the specification only).    *)
(*                                                                         *)
(* Units.  Lengths and pointer coordinates are integers in centi-pixels    *)
(* (1px = 100), so that the auto-scroll step of 0.1px and its 30% start    *)
(* speed are exact.  Progress values are exact rationals [n, d] with the   *)
(* IEEE specials of a division by zero: d = 0 and n = 1, -1, 0 stand for   *)
(* +Infinity, -Infinity and NaN.  A nullable field holds <<>> (null) or    *)
(* <<v>>.  A handle (requestAnimationFrame, setTimeout) is a positive      *)
(* integer, 0 when the field is null.                                      *)
(*                                                                         *)
(* Handlers are operators from a state record to a state record, composed  *)
(* in the order the code calls them; an action of Next is one browser      *)
(* task: the dispatch of one event to every listener, one animation frame, *)
(* one timer, or one call of the public API.                               *)
(***************************************************************************)
EXTENDS Integers, Sequences, FiniteSets, TLC

VARIABLES
  variant,    \* which makeDraggable the build resolves: "direct" | "deferred"
  opt,        \* Renderer.options
  r,          \* the Renderer instance's private fields
  dom,        \* layout and style state of the Renderer's elements
  lenis,      \* the inertial scroll controller
  raf,        \* pending requestAnimationFrame callbacks, in request order
  timers,     \* pending setTimeout callbacks
  trackers,   \* the makeDraggable subscriptions held by the Renderer
  sessions,   \* the closures created by makeDraggable.onPointerDown
  tiles,      \* the canvases of the latest render pass and its closure
  obs         \* observation of what the last task emitted and wrote

vars == <<variant, opt, r, dom, lenis, raf, timers, trackers, sessions, tiles, obs>>

----------------------------------------------------------------------------
(* Bounds of the model *)

\* Most drag sessions (pointer-downs not yet garbage) alive at once.
MaxSessions == 2
\* Most makeDraggable subscriptions the Renderer accumulates.
MaxTrackers == 2
\* Most consecutive frames of one auto-scroll run that are explored.
MaxAutoScrollTicks == 1
\* Most consecutive frames of one auto-scroll run whose speed ramp is followed.
MaxRampTicks == 3

----------------------------------------------------------------------------
(* Program constants, in centi-pixels and milliseconds *)

THRESHOLD == 300                \* threshold = 3
MOUSE_BUTTON == 0               \* mouseButton = 0
MIN_DRAG_INTERVAL == 2          \* part_004 variant
MIN_DRAG_INTERVAL_RAF == 4      \* draggable.ts variant
MIN_MOVEMENT_THRESHOLD == 10    \* 0.001px, in 1e-4 px
MIN_MOVEMENT_THRESHOLD_RAF == 100 \* 0.01px, in 1e-4 px
DRAG_DAMPING == 99              \* 0.99, in hundredths
DRAG_DAMPING_RAF == 98          \* 0.98, in hundredths
EDGE_DISTANCE == 1500           \* minDistanceFromEdge < 15
EDGE_DISTANCE_RAF == 2000       \* minDistanceFromEdge < 20
EDGE_DAMPING_MIN == 95          \* Math.max(0.95, edgeRatio)
EDGE_DAMPING_MIN_RAF == 90      \* Math.max(0.9, edgeRatio)
EDGE_BUFFER == 8000             \* EDGE_BUFFER = 80
ACCELERATION == 10              \* acceleration = 0.1
MIN_SCROLL_SPEED == 200         \* Math.max(2, ...)
MAX_SCROLL_SPEED == 1200        \* edgeProximity * 12
FOLLOW_STEP == 1000             \* Math.min(center, 10)
DEFAULT_HEIGHT == 12800         \* defaultHeight = 128
CONTAINER_LEFT == 0             \* scrollContainer.getBoundingClientRect().left
VIEWPORT_WIDTH == 20000         \* scrollContainer.clientWidth: a 200px host
AUDIO_DURATION == 401           \* audioData.duration, in tenths of a second
MAX_CANVAS_WIDTH == 800000      \* Renderer.MAX_CANVAS_WIDTH = 8000
MAX_NODES == 10                 \* Renderer.MAX_NODES = 10
DEFAULT_BAR_WIDTH == 50         \* options.barWidth || 0.5

----------------------------------------------------------------------------
(* Input sets *)

\* Pointer clientX: the left edge, the centre and 190px (the right edge zone)
\* of the 200px viewport.
PointerXs == {0, 10000, 19000}
\* Pointer clientX inside the right edge zone (160px to 200px): 170px, 190px
\* and the right edge.
EdgeXs == {17000, 19000, 20000}
\* Pointer clientX of pointerup, pointerout and pointercancel.
ReleaseXs == {10000}
\* Milliseconds between a pointermove and the sample before it: inside and
\* outside the throttle interval of both trackers.
TimeDeltas == {1, 4}
\* Pointer clientY: inside the wrapper's height.
PointerYs == {0}
Buttons == {0, 2}
\* options.minPxPerSec: content of 0px and of ceil(200.5) = 201px.
MinPxPerSecs == {0, 5}
\* zoom levels of the tiled waveform: 201px (2 tiles of 200px) and 2807px (15)
ZoomLevels == {5, 70}
\* options.container: a selector that matches an element or none, an
\* HTMLElement, and a value that is neither.
Containers ==
  {[type |-> "string", matches |-> TRUE], [type |-> "string", matches |-> FALSE],
   [type |-> "element", matches |-> TRUE], [type |-> "object", matches |-> FALSE]}
\* scrollContainer.clientWidth of the hosts a layout is computed for: 200px
\* and 20000px, wider than MAX_CANVAS_WIDTH.
ViewportWidths == {VIEWPORT_WIDTH, 2000000}
\* options.barWidth: unset, and 3px (with the gap of 1.5px a period of 4.5px)
BarWidths == {0, 300}
\* options.minPxPerSec of the layouts: content of 0px, 81px and 201px
LayoutZooms == {0, 2, 5}
\* channel.length: no sample, one sample, fewer samples than tiles, and more
ChannelLengths == {0, 1, 7, 1000}
\* scrollLeft after a scroll: the tiles 0, 3, 6, 8 and 12 of 15
ScrollLefts == {0, 60000, 120000, 160000, 240000}

----------------------------------------------------------------------------
(* Numbers: the JavaScript arithmetic the handlers use *)

Null == <<>>
Some(v) == <<v>>
Val(m) == m[1]

\* F applied to the value of v, with v evaluated once
With(v, F(_)) == CHOOSE out \in {F(t) : t \in {v}} : TRUE

Abs(i) == IF i < 0 THEN -i ELSE i
Sign(i) == IF i < 0 THEN -1 ELSE IF i > 0 THEN 1 ELSE 0
MinInt(a, b) == IF a < b THEN a ELSE b
MaxInt(a, b) == IF a < b THEN b ELSE a

RECURSIVE Gcd(_, _)
Gcd(a, b) == IF b = 0 THEN a ELSE Gcd(b, a % b)

\* The rational n/d in lowest terms (d > 0).
Rat(n, d) == LET g == Gcd(Abs(n), d) IN [n |-> n \div g, d |-> d \div g]
Num(i) == [n |-> i, d |-> 1]
NaN == [n |-> 0, d |-> 0]
Zero == Num(0)
One == Num(1)

\* a / b on numbers that are integers (widths are never negative).
JsDiv(a, b) == IF b = 0 THEN [n |-> Sign(a), d |-> 0] ELSE Rat(a, b)

IsNaN(x) == x.d = 0 /\ x.n = 0
IsFinite(x) == x.d > 0

\* a < b as JavaScript compares: false when either side is NaN.
Less(a, b) ==
  /\ ~IsNaN(a)
  /\ ~IsNaN(b)
  /\ IF a.d = 0 /\ b.d = 0 THEN a.n < b.n ELSE a.n * b.d < b.n * a.d

MathMax(a, b) == IF IsNaN(a) \/ IsNaN(b) THEN NaN ELSE IF Less(a, b) THEN b ELSE a
MathMin(a, b) == IF IsNaN(a) \/ IsNaN(b) THEN NaN ELSE IF Less(b, a) THEN b ELSE a

\* Renderer.clamp
clamp(value, min, max) == MathMin(MathMax(value, min), max)

\* x * k for a finite x and an integer k
Times(x, k) == Rat(x.n * k, x.d)
\* Math.floor and Math.ceil of a finite x
Floor(x) == x.n \div x.d
Ceil(x) == -((-x.n) \div x.d)

InUnit(x) == IsFinite(x) /\ ~Less(x, Zero) /\ ~Less(One, x)

\* Arguments of renderProgress: inside [0, 1], above 1, and NaN.
ProgressInputs == {Rat(1, 2), Rat(3, 2), NaN}
\* setScrollPercentage(percent): the start and the end of the waveform
ScrollPercents == {Zero, One}
\* Arguments of updateCursorPosition in the calls made on their own.
CursorInputs == {Zero, Rat(1, 2), One, Rat(3, 2), NaN}

----------------------------------------------------------------------------
(* The state record the handlers transform *)

State ==
  [variant |-> variant, opt |-> opt, r |-> r, dom |-> dom, lenis |-> lenis,
   raf |-> raf, timers |-> timers, trackers |-> trackers,
   sessions |-> sessions, tiles |-> tiles, obs |-> obs]

----------------------------------------------------------------------------
(* Layout: what the DOM reports *)

\* wrapper.getBoundingClientRect().width: '100%' or the pixel width set by render
WrapperWidth(s) == IF s.dom.wrapperFill THEN s.dom.clientWidth ELSE s.dom.wrapperPx
\* scrollContainer.scrollWidth
ScrollWidth(s) == MaxInt(s.dom.clientWidth, WrapperWidth(s))
\* the largest scroll offset the scroll container admits
MaxScrollLeft(s) == ScrollWidth(s) - s.dom.clientWidth
\* wrapper.getBoundingClientRect().left
WrapperLeft(s) == CONTAINER_LEFT - s.dom.scrollLeft
WrapperRect(s) == [left |-> WrapperLeft(s), width |-> WrapperWidth(s)]

\* Whether a pointer at (x, y) hits the wrapper inside the viewport; a
\* container removed from the document receives no pointer event.
HitsWrapper(s, x, y) ==
  /\ s.dom.mounted
  /\ x >= CONTAINER_LEFT
  /\ x < CONTAINER_LEFT + s.dom.clientWidth
  /\ x >= WrapperLeft(s)
  /\ x < WrapperLeft(s) + WrapperWidth(s)
  /\ y >= 0
  /\ y < DEFAULT_HEIGHT

\* cursor.getBoundingClientRect().left: the cursor sits at cursorLeft (a
\* fraction of the wrapper's width) from the wrapper's left edge.
CursorX(s) ==
  Rat(WrapperLeft(s) * s.dom.cursorLeft.d + s.dom.cursorLeft.n * WrapperWidth(s),
      s.dom.cursorLeft.d)

\* Assigning scrollContainer.scrollLeft: the browser clamps to the scrollable range.
SetScrollLeft(s, v) ==
  [s EXCEPT !.dom.scrollLeft = MaxInt(0, MinInt(v, MaxScrollLeft(s)))]

\* this.scrollContainer.scrollLeft = v, written by the Renderer itself.
\* obs.direct keeps whether a task made such a write while this.lenis was set.
WriteScrollLeft(s, v) ==
  LET Write(t) == [SetScrollLeft(t, v) EXCEPT !.obs.direct = @ \/ t.lenis.alive]
  IN With(s, Write)

----------------------------------------------------------------------------
(* Observation: what one task emitted and wrote.  The log is reset when a   *)
(* task begins.                                                             *)

\* The start of a task: the logs of the previous task are dropped.
Begin(s) ==
  [s EXCEPT !.obs = [emitted |-> <<>>, cursorWrites |-> <<>>, fault |-> "none",
                     sample |-> Null, calls |-> <<>>, scrollCalls |-> <<>>,
                     callbacks |-> <<>>, exported |-> Null, zoom |-> Null,
                     scrolled |-> Null, draws |-> <<>>, constructed |-> Null,
                     gesture |-> <<>>, released |-> Null, click |-> Null,
                     drags |-> <<>>, rendering |-> Null, stale |-> FALSE, direct |-> FALSE, writers |-> <<>>, resized |-> Null,
                     sampled |-> Null, accumulated |-> Null, setOptions |-> Null,
                     slices |-> Null, requested |-> Null]]

\* EventEmitter.emit for the Renderer's events; p is the progress argument
\* of the drag events (Zero for the events that carry none).
Emit(s, ev, p) ==
  [s EXCEPT !.obs.emitted = Append(@, [ev |-> ev, p |-> p])]

\* renderSingleCanvas appended the canvas of tile index to the container: the
\* log keeps it in order with the events, and obs.draws keeps the tile index
\* of the scroll offset at that moment.
LogDraw(s, index) ==
  [s EXCEPT !.obs.emitted = Append(@, [ev |-> "draw", p |-> Num(index)]),
            !.obs.draws = Append(@,
              [index |-> index,
               scrollable |-> s.r.isScrollable,
               canvasIndex |-> (s.dom.scrollLeft * s.tiles.numCanvases)
                                 \div s.tiles.totalWidth])]

\* Records that a session called back out of order: a drag or a second
\* dragend after its own dragend.
Fault(s, what) ==
  [s EXCEPT !.obs.fault = IF @ = "none" THEN what ELSE @]

----------------------------------------------------------------------------
(* The browser's schedulers *)

SeqToSet(q) == {q[i] : i \in 1..Len(q)}

\* A handle for a new callback: the smallest positive integer not in used.
\* Handles are opaque, so the one held by the variable that is about to be
\* overwritten, whose callback has run or been cancelled, may be taken again.
Fresh(used) ==
  CHOOSE n \in 1..(Cardinality(used) + 1) :
    n \notin used /\ \A m \in 1..(n - 1) : m \in used

RafPendingIds(s) == {e.id : e \in SeqToSet(s.raf)}

RafHandles(s) ==
  RafPendingIds(s)
    \cup {s.r.animationFrameId, s.r.continuousScrollInterval}
    \cup {x.animationFrameId : x \in SeqToSet(s.sessions)}

\* The handle requestAnimationFrame returns when its result overwrites a
\* variable that holds old.
FreshRaf(s, old) == Fresh((RafHandles(s) \ {old}) \cup RafPendingIds(s))

\* requestAnimationFrame(callback): the callback joins the queue under handle id.
RequestAnimationFrame(s, id, cb) ==
  [s EXCEPT !.raf = Append(@, [cb EXCEPT !.id = id])]

\* cancelAnimationFrame(id)
CancelAnimationFrame(s, id) ==
  LET Keep(e) == e.id # id IN [s EXCEPT !.raf = SelectSeq(@, Keep)]

RafPending(s, id) == \E e \in SeqToSet(s.raf) : e.id = id

\* The shape of a queued callback: which closure it is and what it captured.
RafEntry(kind) ==
  [id |-> 0, kind |-> kind, sid |-> 0, x |-> 0, y |-> 0, rawDx |-> 0,
   currentSpeed |-> 0, maxSpeed |-> 0, ticks |-> 0]

\* setTimeout(callback, delay); sid names the session a callback belongs to
\* (0 for the Renderer's own).
SetTimeout(s, id, kind) ==
  [s EXCEPT !.timers = @ \cup {[id |-> id, kind |-> kind, sid |-> 0]}]

\* clearTimeout(id)
ClearTimeout(s, id) ==
  [s EXCEPT !.timers = {t \in @ : t.id # id}]

----------------------------------------------------------------------------
(* The inertial scroll controller (Lenis), as the specification describes   *)
(* it: an offset that is snapped or eased to a target, and an animation     *)
(* loop that stop() pauses and start() resumes without losing the target.   *)

ClampScroll(s, v) == MaxInt(0, MinInt(v, MaxScrollLeft(s)))

LenisStop(s) == [s EXCEPT !.lenis.isStopped = TRUE]
LenisStart(s) == [s EXCEPT !.lenis.isStopped = FALSE]

\* lenis.scrollTo(target, { immediate, force, lerp, duration })
LenisScrollTo(s, target, immediate) ==
  IF immediate
    THEN [SetScrollLeft(s, target) EXCEPT !.lenis.target = Null]
    ELSE [s EXCEPT !.lenis.target = Some(ClampScroll(s, target))]

\* lenis.animatedScroll || scrollContainer.scrollLeft
AnimatedScrollLeft(s) == s.dom.scrollLeft

----------------------------------------------------------------------------
(* Renderer: cursor, progress overlay and scroll-into-view *)

\* Renderer.updateCursorPosition(progress) with the cache check removed.
UpdateCursorPositionNoCache(s, progress) ==
  IF IsNaN(progress) THEN s
  ELSE [s EXCEPT !.r.lastCursorProgress = progress,
                 !.dom.cursorLeft = progress,
                 !.obs.cursorWrites = Append(@, progress)]

\* Renderer.updateCursorPosition(progress); obs.cursorWrites logs each write
\* of cursor.style.left.
UpdateCursorPosition(s, progress) ==
  IF IsNaN(progress) THEN s
  ELSE IF progress = s.r.lastCursorProgress THEN s
  ELSE [s EXCEPT !.r.lastCursorProgress = progress,
                 !.dom.cursorLeft = progress,
                 !.obs.cursorWrites = Append(@, progress)]

\* Renderer.scrollIntoView(progress, isPlaying) without the early return of
\* an interaction in progress.
ScrollIntoViewUnguarded(s, progress, isPlaying) ==
  LET scrollWidth == ScrollWidth(s)
      progressWidth == Times(progress, scrollWidth)
      target == Floor(progressWidth) - s.dom.clientWidth \div 2
  IN IF s.lenis.alive THEN LenisScrollTo(s, target, FALSE)
     ELSE SetScrollLeft(s, target)

\* Renderer.scrollIntoView(progress, isPlaying)
ScrollIntoView(s, progress, isPlaying) ==
  IF s.r.isUserInteracting /\ ~isPlaying THEN s
  ELSE
    LET animatedScrollLeft == AnimatedScrollLeft(s)
        scrollWidth == ScrollWidth(s)
        clientWidth == s.dom.clientWidth
        progressWidth == Times(progress, scrollWidth)
        startEdge == animatedScrollLeft
        endEdge == animatedScrollLeft + clientWidth
        middle == clientWidth \div 2
    IN
    IF s.r.isDragging
      THEN
        IF Less(progressWidth, Num(startEdge + EDGE_BUFFER))
             \/ Less(Num(endEdge - EDGE_BUFFER), progressWidth)
          THEN IF s.lenis.alive
                 THEN LenisScrollTo(s, Floor(progressWidth) - middle, FALSE)
                 ELSE s
          ELSE s
      ELSE
        LET s1 ==
              IF Less(progressWidth, Num(startEdge)) \/ Less(Num(endEdge), progressWidth)
                THEN LET targetScrollLeft ==
                           Floor(progressWidth) - (IF s.opt.autoCenter THEN middle ELSE 0)
                     IN IF s.lenis.alive
                          THEN LenisScrollTo(s, targetScrollLeft, FALSE)
                          ELSE WriteScrollLeft(s, targetScrollLeft)
                ELSE s
            center == Floor(progressWidth) - animatedScrollLeft - middle
        IN
        IF isPlaying /\ s.opt.autoCenter
             /\ Less(Num(animatedScrollLeft + middle), progressWidth)
          THEN LET newScrollLeft == animatedScrollLeft + MinInt(center, FOLLOW_STEP)
               IN IF s1.lenis.alive
                    THEN LenisScrollTo(s1, newScrollLeft, TRUE)
                    ELSE WriteScrollLeft(s1, newScrollLeft)
          ELSE s1

\* Renderer.renderProgress(progress, isPlaying); obs.scrollCalls logs each call
\* of scrollIntoView with the scroll offset and the controller's target before
\* and after it.
RenderProgress(s, progress, isPlaying) ==
  IF IsNaN(progress) THEN s
  ELSE
    LET s1 == [s EXCEPT !.dom.progressWidth = progress]
        s2 == IF ~s1.r.isDragging THEN UpdateCursorPosition(s1, progress) ELSE s1
    IN IF s2.r.isScrollable /\ s2.opt.autoScroll
         THEN LET s3 == ScrollIntoView(s2, progress, isPlaying)
              IN [s3 EXCEPT !.obs.scrollCalls = Append(@,
                    [interacting |-> s2.r.isUserInteracting,
                     dragging |-> s2.r.isDragging,
                     isPlaying |-> isPlaying,
                     progress |-> progress,
                     before |-> s2.dom.scrollLeft,
                     targetBefore |-> s2.lenis.target,
                     after |-> s3.dom.scrollLeft,
                     targetAfter |-> s3.lenis.target])]
         ELSE s2

\* Renderer.syncCursorWithScroll()
SyncCursorWithScroll(s) ==
  IF ~s.r.isDragging /\ s.r.realTimeProgress # Null
    THEN UpdateCursorPosition(s, Val(s.r.realTimeProgress))
    ELSE s

----------------------------------------------------------------------------
(* Renderer: the interacting flag *)

\* Renderer.startUserInteraction()
StartUserInteraction(s) ==
  LET s1 == [s EXCEPT !.r.isUserInteracting = TRUE]
      s2 == IF s1.r.interactionTimeout # 0
              THEN ClearTimeout(s1, s1.r.interactionTimeout)
              ELSE s1
  IN IF s2.lenis.alive THEN LenisStop(s2) ELSE s2

\* An endUserInteraction that leaves the pending timer in place.
EndUserInteractionKeep(s) ==
  LET id == Fresh({t.id : t \in s.timers})
  IN [SetTimeout(s, id, "interaction") EXCEPT !.r.interactionTimeout = id]

\* Renderer.endUserInteraction()
EndUserInteraction(s) ==
  LET s1 == IF s.r.interactionTimeout # 0
              THEN ClearTimeout(s, s.r.interactionTimeout)
              ELSE s
      id == Fresh({t.id : t \in s1.timers})
  IN [SetTimeout(s1, id, "interaction") EXCEPT !.r.interactionTimeout = id]

\* The callback endUserInteraction hands to setTimeout(..., 500).
InteractionTimeout(s) ==
  LET s1 == [s EXCEPT !.r.isUserInteracting = FALSE]
  IN IF s1.lenis.alive THEN LenisStart(s1) ELSE s1

----------------------------------------------------------------------------
(* Renderer: the per-frame cursor-follow loop *)

\* Renderer.startRealTimeCursorUpdates()
StartRealTimeCursorUpdates(s) ==
  LET s1 == IF s.r.animationFrameId # 0
              THEN CancelAnimationFrame(s, s.r.animationFrameId)
              ELSE s
      id == FreshRaf(s1, s.r.animationFrameId)
  IN [RequestAnimationFrame(s1, id, RafEntry("cursor")) EXCEPT !.r.animationFrameId = id]

\* Renderer.stopRealTimeCursorUpdates()
StopRealTimeCursorUpdates(s) ==
  LET s1 == IF s.r.animationFrameId # 0
              THEN [CancelAnimationFrame(s, s.r.animationFrameId)
                      EXCEPT !.r.animationFrameId = 0]
              ELSE s
  IN IF s1.r.realTimeProgress # Null
       THEN UpdateCursorPosition(s1, Val(s1.r.realTimeProgress))
       ELSE s1

\* The updateCursor closure of startRealTimeCursorUpdates, run by a frame.
UpdateCursor(s) ==
  IF s.r.isDragging /\ s.r.realTimeProgress # Null
    THEN LET s1 == UpdateCursorPosition(s, Val(s.r.realTimeProgress))
             id == FreshRaf(s1, s.r.animationFrameId)
         IN [RequestAnimationFrame(s1, id, RafEntry("cursor"))
               EXCEPT !.r.animationFrameId = id]
    ELSE [s EXCEPT !.r.animationFrameId = 0]

----------------------------------------------------------------------------
(* Renderer: continuous auto-scroll near the viewport edges *)

\* A clamp that keeps the lower limit only.
ClampIntLower(value, min, max) == MaxInt(value, min)

\* Renderer.clamp(value, min, max) on offsets in centi-pixels
ClampInt(value, min, max) == MinInt(MaxInt(value, min), max)

\* Renderer.stopContinuousScroll()
StopContinuousScroll(s) ==
  LET s1 == IF s.r.continuousScrollInterval # 0
              THEN [CancelAnimationFrame(s, s.r.continuousScrollInterval)
                      EXCEPT !.r.continuousScrollInterval = 0]
              ELSE s
  IN [s1 EXCEPT !.r.continuousScrollDirection = "none"]

\* Renderer.startContinuousScroll(direction, speed): speed * 0.3 is the first
\* currentSpeed, speed the maxSpeed of the scroll closure.
StartContinuousScroll(s, direction, speed) ==
  LET s1 == [StopContinuousScroll(s) EXCEPT !.r.continuousScrollDirection = direction]
      id == FreshRaf(s1, 0)
      cb == [RafEntry("scroll") EXCEPT !.currentSpeed = (speed * 3) \div 10,
                                       !.maxSpeed = speed]
  IN [RequestAnimationFrame(s1, id, cb) EXCEPT !.r.continuousScrollInterval = id]

\* The scroll closure of startContinuousScroll, run by a frame; e is the
\* queued callback with the closure's currentSpeed and maxSpeed.
\* obs.requested keeps the offset the tick asks for, the offset before the
\* clamp and the limit scrollWidth - clientWidth.
ScrollTick(s, e) ==
  IF ~s.r.isDragging \/ s.r.continuousScrollDirection = "none"
    THEN StopContinuousScroll(s)
    ELSE
      LET currentSpeed == MinInt(e.currentSpeed + ACCELERATION, e.maxSpeed)
          scrollAmount == IF s.r.continuousScrollDirection = "right"
                            THEN currentSpeed ELSE -currentSpeed
          currentScrollLeft == AnimatedScrollLeft(s)
          newScrollLeft == currentScrollLeft + scrollAmount
          maxScrollLeft == ScrollWidth(s) - s.dom.clientWidth
          clampedScrollLeft == ClampInt(newScrollLeft, 0, maxScrollLeft)
          s0 == [s EXCEPT !.obs.requested =
                   Some([offset |-> clampedScrollLeft, raw |-> newScrollLeft,
                         max |-> maxScrollLeft])]
          s1 == IF s0.lenis.alive
                  THEN LenisScrollTo(s0, clampedScrollLeft, TRUE)
                  ELSE WriteScrollLeft(s0, clampedScrollLeft)
          s2 == IF s1.r.lastDragMouseX # Null
                  THEN LET wrapperRect == WrapperRect(s1)
                           newRelative ==
                             clamp(JsDiv(Val(s1.r.lastDragMouseX) - wrapperRect.left,
                                         wrapperRect.width), Zero, One)
                           a == [s1 EXCEPT !.r.dragRelativeX = Some(newRelative),
                                           !.r.realTimeProgress = Some(newRelative),
                                           !.obs.writers = Append(@, "tick")]
                       IN RenderProgress(UpdateCursorPosition(a, newRelative),
                                         newRelative, FALSE)
                  ELSE s1
          id == FreshRaf(s2, s.r.continuousScrollInterval)
          cb == [RafEntry("scroll") EXCEPT !.currentSpeed = currentSpeed,
                                           !.maxSpeed = e.maxSpeed,
                                           !.ticks = e.ticks + 1]
      IN [RequestAnimationFrame(s2, id, cb) EXCEPT !.r.continuousScrollInterval = id]

\* The speed updateContinuousScroll derives from the edge proximity:
\* Math.max(2, edgeProximity * 12), where distance / zone is 1 - edgeProximity
\* in the left zone and edgeProximity in the right zone.
ScrollSpeed(proximityNum, zone) ==
  MaxInt(MIN_SCROLL_SPEED, (MAX_SCROLL_SPEED * proximityNum) \div zone)

\* Renderer.updateContinuousScroll(mouseX)
UpdateContinuousScroll(s, mouseX) ==
  IF ~s.r.isDragging THEN s
  ELSE
    LET relativeX == mouseX - CONTAINER_LEFT
        containerWidth == s.dom.clientWidth
        edgeZoneWidth == containerWidth \div 5
        leftEdgeZone == edgeZoneWidth
        rightEdgeZone == containerWidth - edgeZoneWidth
        direction == IF relativeX < leftEdgeZone THEN "left"
                     ELSE IF relativeX > rightEdgeZone THEN "right"
                     ELSE "none"
        speed == IF direction = "left"
                   THEN ScrollSpeed(leftEdgeZone - relativeX, leftEdgeZone)
                   ELSE ScrollSpeed(relativeX - rightEdgeZone, edgeZoneWidth)
    IN IF direction # "none"
         THEN IF s.r.continuousScrollDirection # direction
                THEN StartContinuousScroll(s, direction, speed)
                ELSE s
         ELSE StopContinuousScroll(s)

----------------------------------------------------------------------------
(* Renderer.initDrag: the three callbacks handed to makeDraggable *)

\* Math.max(0, Math.min(1, x / wrapperWidth))
RelativeOf(x, wrapperWidth) == MathMax(Zero, MathMin(One, JsDiv(x, wrapperWidth)))

\* wrapperRect?.width ?? wrapper.getBoundingClientRect().width
CachedWrapperWidth(s) ==
  IF s.r.wrapperRect # Null THEN Val(s.r.wrapperRect).width ELSE WrapperWidth(s)

\* The drag callback: (_, __, x, ___, velocity = 0, mouseX = 0) => ...
\* obs.drags keeps, for each 'drag' it emits, the cursor's position and the
\* overlay's width at that moment.
OnDrag(s, x, mouseX) ==
  LET relative == RelativeOf(x, CachedWrapperWidth(s))
      s1 == [s EXCEPT !.r.dragRelativeX = Some(relative),
                      !.r.realTimeProgress = Some(relative),
                      !.r.lastDragMouseX = Some(mouseX)]
      s2 == UpdateCursorPosition(s1, relative)
      s3 == RenderProgress(s2, relative, FALSE)
      s4 == StartRealTimeCursorUpdates(s3)
      s5 == UpdateContinuousScroll(s4, mouseX)
      Log(t) == [t EXCEPT !.obs.writers = Append(@, "drag"),
                          !.obs.drags = Append(@,
                   [p |-> relative, cursor |-> t.dom.cursorLeft,
                    progress |-> t.dom.progressWidth])]
  IN Emit(With(s5, Log), "drag", relative)

\* The start callback: (x) => ...
OnStart(s, x) ==
  LET s1 == StartUserInteraction([s EXCEPT !.r.isDragging = TRUE])
      wrapperRect == WrapperRect(s1)
      relative == clamp(JsDiv(x, wrapperRect.width), Zero, One)
      s2 == [s1 EXCEPT !.r.wrapperRect = Some(wrapperRect),
                       !.r.dragRelativeX = Some(relative),
                       !.r.realTimeProgress = Some(relative)]
  IN Emit(s2, "dragstart", relative)

\* The end callback: (x) => ...
OnEnd(s, x) ==
  LET s1 == StopContinuousScroll(StopRealTimeCursorUpdates([s EXCEPT !.r.isDragging = FALSE]))
      relative == RelativeOf(x, CachedWrapperWidth(s1))
      s2 == [s1 EXCEPT !.r.dragRelativeX = Null,
                       !.r.realTimeProgress = Null,
                       !.r.wrapperRect = Null,
                       !.r.lastDragMouseX = Null]
  IN Emit(EndUserInteraction(s2), "dragend", relative)

----------------------------------------------------------------------------
(* makeDraggable: one tracker per call, one session per accepted pointer-down *)
(* The velocity history and the Y displacement feed only arguments that the *)
(* Renderer's callbacks ignore, and are left out of the session.  The field *)
(* ended is an observation: the session has called onEnd.                   *)

\* MIN_DRAG_INTERVAL of the variant in use
MinDragInterval(s) ==
  IF s.variant = "direct" THEN MIN_DRAG_INTERVAL ELSE MIN_DRAG_INTERVAL_RAF

HasSession(s, sid) == \E i \in 1..Len(s.sessions) : s.sessions[i].sid = sid
SessionIndex(s, sid) == CHOOSE i \in 1..Len(s.sessions) : s.sessions[i].sid = sid
SessionOf(s, sid) == s.sessions[SessionIndex(s, sid)]

SessionIds(s) ==
  {x.sid : x \in SeqToSet(s.sessions)}
    \cup {t.unsub : t \in SeqToSet(s.trackers)}

\* rawDx * DRAG_DAMPING * edgeDamping in 1e-4 px, where edgeDamping is
\* Math.max(floorRatio, minDistanceFromEdge / edge) below the edge distance.
DampedDx(rawDx, minDistanceFromEdge, damping, edge, floorRatio) ==
  LET ratioNum == IF minDistanceFromEdge < edge
                    THEN MaxInt((floorRatio * edge) \div 100, minDistanceFromEdge)
                    ELSE edge
      a == Abs(rawDx) * damping
  IN Sign(rawDx) * ((a \div edge) * ratioNum + ((a % edge) * ratioNum) \div edge)

\* obs.gesture logs what a tracker session does in a task: a release it
\* handles ("up") and its calls of onStart, onDrag and onEnd, each with the
\* session's isDragging and ended at that moment and whether the pointer X
\* that caused it is beyond the threshold from the pointer-down position;
\* for onStart also its x argument and the session's initialRelativeX.
LogGesture(s, cb, sid, x, pointerX) ==
  LET Entry(se) ==
        [cb |-> cb, sid |-> sid, dragging |-> se.isDragging, ended |-> se.ended,
         beyond |-> Abs(pointerX - se.initialMouseX) > THRESHOLD,
         x |-> IF cb = "start" THEN x ELSE 0,
         origin |-> IF cb = "start" THEN se.initialRelativeX ELSE 0]
      Log(t) == [t EXCEPT !.obs.gesture = Append(@, With(SessionOf(t, sid), Entry))]
  IN With(s, Log)

\* The body of the dragging branch of onPointerMove from the element's rect
\* on: onStart once, the damped accumulation, and onDrag past the movement
\* threshold.  mouseX is the sixth argument handed to onDrag (the callback's
\* default when the call passes none).  obs.accumulated keeps the value of
\* accumulatedDx an onDrag call is made with.
DragStep(s, sid, x, rawDx, mouseX, damping, edge, floorRatio, minMovement) ==
  LET se == SessionOf(s, sid)
      i == SessionIndex(s, sid)
      rect == WrapperRect(s)
      currentRelativeX == x - rect.left
      s1 == IF ~se.isDragging
              THEN [OnStart(LogGesture(s, "start", sid, se.initialRelativeX, x),
                            se.initialRelativeX)
                      EXCEPT !.sessions[i].isDragging = TRUE]
              ELSE s
      minDistanceFromEdge == MinInt(currentRelativeX, rect.width - currentRelativeX)
      acc == se.accumulatedDx + DampedDx(rawDx, minDistanceFromEdge, damping, edge, floorRatio)
  IN IF Abs(acc) > minMovement
       THEN LET s2 == IF se.ended THEN Fault(s1, "drag after dragend") ELSE s1
                s3 == LogGesture(s2, "drag", sid, currentRelativeX, x)
            IN [OnDrag([s3 EXCEPT !.obs.sample = Some(x),
                                  !.obs.accumulated = Some(acc)],
                       currentRelativeX, mouseX)
                  EXCEPT !.sessions[i].accumulatedDx = 0]
       ELSE [s1 EXCEPT !.sessions[i].accumulatedDx = acc]

\* unsubscribeDocument of session sid: the pointer listeners leave the
\* document at once, the capture-phase click listener in a timer of 10ms.
\* The handle of that timer is kept nowhere, and a second timer for the same
\* listener does what the first does, so the timers of one session are one
\* entry.  (The touchmove listener receives no event here and is not part of
\* the state.)
UnsubscribeDocument(s, sid) ==
  IF sid = 0 \/ ~HasSession(s, sid) THEN s
  ELSE [s EXCEPT !.sessions[SessionIndex(s, sid)].listening = FALSE,
                 !.timers = @ \cup {[id |-> 0, kind |-> "click", sid |-> sid]}]

\* The callback of that timer: document.removeEventListener('click', onClick)
RemoveClickListener(s, sid) ==
  IF ~HasSession(s, sid) THEN s
  ELSE [s EXCEPT !.sessions[SessionIndex(s, sid)].clickListening = FALSE]

\* onPointerDown of tracker t
OnPointerDown(s, t, x, y, button) ==
  IF button # MOUSE_BUTTON THEN s
  ELSE
    LET sid == Fresh(SessionIds(s))
        se == [sid |-> sid, tracker |-> t,
               initialMouseX |-> x, initialMouseY |-> y,
               initialRelativeX |-> x - WrapperLeft(s),
               isDragging |-> FALSE, lastMouseX |-> x,
               accumulatedDx |-> 0, animationFrameId |-> 0,
               listening |-> TRUE, clickListening |-> TRUE, ended |-> FALSE]
    IN [s EXCEPT !.sessions = Append(@, se), !.trackers[t].unsub = sid]

\* onPointerMove without its throttle
MoveAcceptedUnthrottled(s, se, x, y, timeDelta) ==
  \/ se.isDragging
  \/ Abs(x - se.initialMouseX) > THRESHOLD
  \/ Abs(y - se.initialMouseY) > THRESHOLD

\* Whether onPointerMove passes its throttle and its threshold test; timeDelta
\* is Date.now() - lastDragTime, which the event brings as an input.
MoveAccepted(s, se, x, y, timeDelta) ==
  /\ timeDelta >= MinDragInterval(s)
  /\ \/ se.isDragging
     \/ Abs(x - se.initialMouseX) > THRESHOLD
     \/ Abs(y - se.initialMouseY) > THRESHOLD

\* onPointerMove of src/unnamed/part_004
OnPointerMoveDirect(s, sid, x, y, timeDelta) ==
  LET se == SessionOf(s, sid)
      i == SessionIndex(s, sid)
  IN IF ~MoveAccepted(s, se, x, y, timeDelta) THEN s
     ELSE [DragStep(s, sid, x, x - se.lastMouseX, x, DRAG_DAMPING,
                    EDGE_DISTANCE, EDGE_DAMPING_MIN, MIN_MOVEMENT_THRESHOLD)
             EXCEPT !.sessions[i].lastMouseX = x]

\* onPointerMove of src/src/draggable.ts: the dragging branch is deferred to
\* the next animation frame through updatePositionWithRAF.
OnPointerMoveDeferred(s, sid, x, y, timeDelta) ==
  LET se == SessionOf(s, sid)
      i == SessionIndex(s, sid)
  IN IF ~MoveAccepted(s, se, x, y, timeDelta) THEN s
     ELSE
       LET s1 == IF se.animationFrameId # 0
                   THEN CancelAnimationFrame(s, se.animationFrameId)
                   ELSE s
           id == FreshRaf(s1, se.animationFrameId)
           cb == [RafEntry("drag") EXCEPT !.sid = sid, !.x = x,
                                          !.rawDx = x - se.lastMouseX]
       IN [RequestAnimationFrame(s1, id, cb)
             EXCEPT !.sessions[i].animationFrameId = id,
                    !.sessions[i].lastMouseX = x]

\* The callback of updatePositionWithRAF, run by a frame.  onDrag is called
\* with five arguments, so the Renderer's mouseX parameter takes its default 0.
DragFrame(s, e) ==
  DragStep(s, e.sid, e.x, e.rawDx, 0, DRAG_DAMPING_RAF,
           EDGE_DISTANCE_RAF, EDGE_DAMPING_MIN_RAF, MIN_MOVEMENT_THRESHOLD_RAF)

OnPointerMove(s, sid, x, y, timeDelta) ==
  IF s.variant = "direct" THEN OnPointerMoveDirect(s, sid, x, y, timeDelta)
  ELSE OnPointerMoveDeferred(s, sid, x, y, timeDelta)

\* onPointerUp: unsubscribeDocument is the tracker's shared variable, which
\* holds the closure of the session created last.
OnPointerUp(s, sid, x) ==
  LET se == SessionOf(s, sid)
      i == SessionIndex(s, sid)
      s0 == LogGesture(s, "up", sid, x, se.lastMouseX)
      s1 == IF s0.variant = "deferred" /\ se.animationFrameId # 0
              THEN [CancelAnimationFrame(s0, se.animationFrameId)
                      EXCEPT !.sessions[i].animationFrameId = 0]
              ELSE s0
      s2 == IF se.isDragging
              THEN [OnEnd(LogGesture(IF se.ended THEN Fault(s1, "second dragend") ELSE s1,
                                     "end", sid, x - WrapperLeft(s1), x),
                          x - WrapperLeft(s1))
                      EXCEPT !.sessions[i].ended = TRUE]
              ELSE s1
  IN UnsubscribeDocument(s2, s2.trackers[se.tracker].unsub)

\* onPointerLeave, the listener of pointerout and pointercancel
OnPointerLeave(s, sid, x, relatedTargetIsNull) ==
  IF relatedTargetIsNull THEN OnPointerUp(s, sid, x) ELSE s

----------------------------------------------------------------------------
(* Renderer: the tiles of renderMultiCanvas.  tiles holds the canvases of   *)
(* the canvas container in document order (each named by its tile index)   *)
(* and the closure of the latest pass: totalWidth, singleCanvasWidth,       *)
(* numCanvases, drawnIndexes and whether the pass subscribed to 'scroll'.   *)
(* earlier tells whether unsubscribeOnScroll still holds the subscriber of  *)
(* a pass before the latest, whose containers have left the document.       *)
(* The progress container receives a canvas whenever the canvas container  *)
(* does.                                                                    *)

NoTiles ==
  [canvases |-> <<>>, drawnIndexes |-> {}, totalWidth |-> 0,
   singleCanvasWidth |-> 0, numCanvases |-> 0, subscribed |-> FALSE,
   earlier |-> FALSE]

\* options.barWidth || options.barGap
HasBars(options) == options.barWidth # 0 \/ options.barGap # 0

\* totalBarWidth = (barWidth || 0.5) + (barGap || barWidth / 2)
TotalBarWidth(options) ==
  LET barWidth == IF options.barWidth # 0 THEN options.barWidth ELSE DEFAULT_BAR_WIDTH
      barGap == IF options.barGap # 0 THEN options.barGap ELSE barWidth \div 2
  IN barWidth + barGap

\* Math.floor(width / totalBarWidth) * totalBarWidth
SnapToBars(options, width) ==
  (width \div TotalBarWidth(options)) * TotalBarWidth(options)

\* A clampedWidth that is the width of a whole tile for every index.
ClampedWidthWhole(s, index) == s.tiles.singleCanvasWidth

\* The width draw(index) gives its canvas: what is left of the total width,
\* at most one tile, clamped to the bar grid.
ClampedWidth(s, index) ==
  LET offset == index * s.tiles.singleCanvasWidth
      clampedWidth == MinInt(s.tiles.totalWidth - offset, s.tiles.singleCanvasWidth)
  IN IF HasBars(s.opt) THEN SnapToBars(s.opt, clampedWidth) ELSE clampedWidth

\* The samples draw(index) slices from a channel of the given length:
\* Math.floor((offset / totalWidth) * channel.length) to
\* Math.floor(((offset + clampedWidth) / totalWidth) * channel.length).
\* The quotients are exact here; the floating-point ones of the code round
\* equal operands equally.
SliceStart(s, index, length) ==
  Floor(Rat(index * s.tiles.singleCanvasWidth * length, s.tiles.totalWidth))

SliceEnd(s, index, length) ==
  Floor(Rat((index * s.tiles.singleCanvasWidth + ClampedWidth(s, index)) * length,
            s.tiles.totalWidth))

\* draw(index) that appends a canvas whatever its width.
DrawUnclamped(s, index) ==
  IF index < 0 \/ index >= s.tiles.numCanvases THEN s
  ELSE LogDraw([s EXCEPT !.tiles.drawnIndexes = @ \cup {index},
                         !.tiles.canvases = Append(@, index)], index)

\* draw(index) without the test of drawnIndexes.
DrawRepeated(s, index) ==
  IF index < 0 \/ index >= s.tiles.numCanvases THEN s
  ELSE
    LET s1 == [s EXCEPT !.tiles.drawnIndexes = @ \cup {index}]
    IN IF ClampedWidth(s1, index) <= 0 THEN s1
       ELSE LogDraw([s1 EXCEPT !.tiles.canvases = Append(@, index)], index)

\* The draw closure of renderMultiCanvas
Draw(s, index) ==
  IF index < 0 \/ index >= s.tiles.numCanvases THEN s
  ELSE IF index \in s.tiles.drawnIndexes THEN s
  ELSE
    LET s1 == [s EXCEPT !.tiles.drawnIndexes = @ \cup {index}]
    IN IF ClampedWidth(s1, index) <= 0 THEN s1
       ELSE LogDraw([s1 EXCEPT !.tiles.canvases = Append(@, index)], index)

\* The clearCanvases closure that never clears.
KeepCanvases(s) == s

\* The clearCanvases closure of renderMultiCanvas
ClearCanvases(s) ==
  IF Cardinality(s.tiles.drawnIndexes) > MAX_NODES
    THEN [s EXCEPT !.tiles.canvases = <<>>, !.tiles.drawnIndexes = {}]
    ELSE s

\* Math.floor((scrollLeft / totalWidth) * numCanvases); the widths of the
\* model make the quotient an integer only at scrollLeft = 0, so the
\* rounding of the floating-point product never decides the floor.
CanvasIndex(s) ==
  Floor(Rat(s.dom.scrollLeft * s.tiles.numCanvases, s.tiles.totalWidth))

\* Drawing two tiles to each side of index.
DrawWindowWide(s, index) ==
  Draw(Draw(Draw(Draw(Draw(s, index - 2), index - 1), index), index + 1), index + 2)

\* draw(index - 1); draw(index); draw(index + 1)
DrawWindow(s, index) == Draw(Draw(Draw(s, index - 1), index), index + 1)

\* for (let i = 0; i < numCanvases; i++) draw(i)
RECURSIVE DrawAll(_, _)
DrawAll(s, i) == IF i >= s.tiles.numCanvases THEN s ELSE DrawAll(Draw(s, i), i + 1)

\* The 'scroll' subscribers of renderMultiCanvas.  A pass started by render()
\* without reRender() leaves the subscriber of the pass before subscribed:
\* it runs first (obs.stale) and draws into the containers of its own pass,
\* which are no longer in the document and are not tracked.  For the
\* subscriber of the latest pass obs.scrolled keeps the index it computed
\* and how many indexes it found drawn.
OnScroll(s) ==
  LET Latest(t) ==
        IF ~t.tiles.subscribed THEN t
        ELSE LET canvasIndex == CanvasIndex(t)
                 s1 == [t EXCEPT !.obs.scrolled =
                          Some([canvasIndex |-> canvasIndex,
                                drawn |-> Cardinality(t.tiles.drawnIndexes)])]
             IN DrawWindow(ClearCanvases(s1), canvasIndex)
      Earlier(t) == Latest([t EXCEPT !.obs.stale = @ \/ t.tiles.earlier])
  IN With(s, Earlier)

\* Renderer.renderChannel and renderMultiCanvas for the one waveform of a
\* Renderer without splitChannels, on a display of pixel ratio 1.
RenderMultiCanvas(s, width) ==
  LET clientWidth == s.dom.clientWidth
      totalWidth == width
      limit == MinInt(MAX_CANVAS_WIDTH, MinInt(clientWidth, totalWidth))
      singleCanvasWidth ==
        IF HasBars(s.opt) /\ limit % TotalBarWidth(s.opt) # 0
          THEN SnapToBars(s.opt, limit)
          ELSE limit
      s1 == [s EXCEPT !.tiles = [NoTiles EXCEPT !.totalWidth = totalWidth,
                                                !.singleCanvasWidth = singleCanvasWidth,
                                                !.earlier = s.tiles.earlier
                                                              \/ s.tiles.subscribed]]
  IN IF singleCanvasWidth = 0 THEN s1
     ELSE
       LET numCanvases == Ceil(Rat(totalWidth, singleCanvasWidth))
           s2 == [s1 EXCEPT !.tiles.numCanvases = numCanvases]
       IN IF ~s2.r.isScrollable THEN DrawAll(s2, 0)
          ELSE [DrawWindow(s2, CanvasIndex(s2))
                  EXCEPT !.tiles.subscribed = numCanvases > 1]

\* exportImage without the test for canvases.
ExportImageUnchecked(s, type) ==
  [s EXCEPT !.obs.exported = Some([rejected |-> FALSE, images |-> s.tiles.canvases])]

\* Renderer.exportImage(format, quality, type): the promise rejects, or
\* resolves with the image of each canvas in document order (an image is
\* named by the tile of its canvas).  Every canvas is at least a pixel wide,
\* so toBlob yields a blob.
ExportImage(s, type) ==
  LET canvases == s.tiles.canvases
  IN IF Len(canvases) = 0
       THEN [s EXCEPT !.obs.exported = Some([rejected |-> TRUE, images |-> <<>>])]
       ELSE [s EXCEPT !.obs.exported = Some([rejected |-> FALSE, images |-> canvases])]

----------------------------------------------------------------------------
(* Renderer: render, reRender, zoom, setOptions *)

\* Math.ceil(audioData.duration * (minPxPerSec || 0)), in pixels; the duration
\* is in tenths of a second.
RenderScrollWidthFloor(duration, minPxPerSec) ==
  Floor(Rat(duration * minPxPerSec, 10))

RenderScrollWidth(duration, minPxPerSec) ==
  Ceil(Rat(duration * minPxPerSec, 10))

\* optionsHash: JSON.stringify of the literal that initLenis hashes
OptionsHash == "{smooth:true,lerp:0.05,wheelMultiplier:0.8,touchMultiplier:1}"

\* An initLenis that tears the controller down and builds a new one whatever
\* the hash.
InitLenisRebuild(s) ==
  [s EXCEPT !.lenis = [alive |-> TRUE, isStopped |-> FALSE, target |-> Null,
                       lastLenisHash |-> OptionsHash,
                       instance |-> @.instance + 1,
                       live |-> (IF @.alive THEN @.live - 1 ELSE @.live) + 1]]

\* Renderer.initLenis(): an instance whose hash matches is kept; otherwise the
\* instance that exists is destroyed and a new one is built.  lenis.instance
\* counts the instances built and lenis.live the ones not yet destroyed.
InitLenis(s) ==
  IF s.lenis.alive /\ s.lenis.lastLenisHash = OptionsHash THEN s
  ELSE [s EXCEPT !.lenis = [alive |-> TRUE, isStopped |-> FALSE, target |-> Null,
                            lastLenisHash |-> OptionsHash,
                            instance |-> @.instance + 1,
                            live |-> (IF @.alive THEN @.live - 1 ELSE @.live) + 1]]

\* The clear function of the resize delay: the wait that is pending is
\* cancelled and its promise rejects into the empty catch.  r.resizeId is the
\* id of the closure, 0 for null or for a wait already cancelled.
ClearResize(s) ==
  IF s.r.resizeId # 0
    THEN [ClearTimeout(s, s.r.resizeId) EXCEPT !.r.resizeId = 0]
    ELSE s

\* this.timeouts.forEach((clear) => clear()); this.timeouts = []: the only
\* clear function the list ever holds is that of the resize delay, pushed by
\* the constructor; once the list is emptied the delay is cleared no more.
ClearTimeouts(s) ==
  IF s.r.timeouts
    THEN [ClearResize(s) EXCEPT !.r.timeouts = FALSE]
    ELSE s

\* this.emit('render'): obs.rendering keeps whether the canvas wrapper held
\* canvases when the render pass began (had) and the canvases it holds when
\* the event is emitted (canvases).
EmitRender(s, had) ==
  LET Log(t) == [t EXCEPT !.obs.rendering =
                   Some([had |-> had, canvases |-> t.tiles.canvases])]
  IN Emit(With(s, Log), "render", Zero)

\* A render that draws the tiles before it emits 'render'.
RenderDrawFirst(s) ==
  LET parentWidth == s.dom.clientWidth
      scrollWidth == RenderScrollWidth(AUDIO_DURATION, s.opt.minPxPerSec) * 100
      isScrollable == scrollWidth > parentWidth
      useParentWidth == s.opt.fillParent /\ ~isScrollable
      s0 == ClearTimeouts(s)
      s1 == [s0 EXCEPT !.r.isScrollable = isScrollable,
                      !.r.audioData = TRUE,
                      !.dom.wrapperFill = useParentWidth,
                      !.dom.wrapperPx = IF useParentWidth THEN 0 ELSE scrollWidth]
      width == IF useParentWidth THEN parentWidth ELSE scrollWidth
      s2 == [s1 EXCEPT !.tiles.canvases = <<>>]
  IN EmitRender(RenderMultiCanvas(InitLenis(SetScrollLeft(s2, s2.dom.scrollLeft)),
                                  width),
                s.tiles.canvases # <<>>)

\* Renderer.render(audioData): the pending delays, the emptied canvas
\* wrapper, the geometry, the controller, the event, and the tiles.
Render(s) ==
  LET parentWidth == s.dom.clientWidth
      scrollWidth == RenderScrollWidth(AUDIO_DURATION, s.opt.minPxPerSec) * 100
      isScrollable == scrollWidth > parentWidth
      useParentWidth == s.opt.fillParent /\ ~isScrollable
      s0 == ClearTimeouts(s)
      s1 == [s0 EXCEPT !.r.isScrollable = isScrollable,
                      !.r.audioData = TRUE,
                      !.dom.wrapperFill = useParentWidth,
                      !.dom.wrapperPx = IF useParentWidth THEN 0 ELSE scrollWidth]
      width == IF useParentWidth THEN parentWidth ELSE scrollWidth
      s2 == [s1 EXCEPT !.tiles.canvases = <<>>]
  IN RenderMultiCanvas(EmitRender(InitLenis(SetScrollLeft(s2, s2.dom.scrollLeft)),
                                  s.tiles.canvases # <<>>),
                       width)

\* progressWrapper.getBoundingClientRect().right, an exact rational
ProgressRight(s) ==
  Rat(WrapperLeft(s) * s.dom.progressWidth.d + s.dom.progressWidth.n * WrapperWidth(s),
      s.dom.progressWidth.d)

\* A re-render that loses the scroll offset.
ReRenderFromStart(s) ==
  IF ~s.r.audioData THEN s ELSE SetScrollLeft(Render(s), 0)

\* this.unsubscribeOnScroll.forEach((unsubscribe) => unsubscribe());
\* this.unsubscribeOnScroll = []
UnsubscribeOnScroll(s) ==
  [s EXCEPT !.tiles.subscribed = FALSE, !.tiles.earlier = FALSE]

\* Renderer.setScroll(pixels)
SetScroll(s, pixels) == WriteScrollLeft(s, pixels)

\* Renderer.setScrollPercentage(percent)
SetScrollPercentage(s, percent) ==
  SetScroll(s, Floor(Times(percent, ScrollWidth(s))))

\* Renderer.reRender()
ReRender(s0) ==
  LET s == UnsubscribeOnScroll(s0)
  IN
  IF ~s.r.audioData THEN s
  ELSE
    LET scrollWidth == ScrollWidth(s)
        before == ProgressRight(s)
        s1 == Render(s)
    IN IF s1.r.isScrollable /\ scrollWidth # ScrollWidth(s1)
         THEN LET after == ProgressRight(s1)
                  \* (after - before) * 2 in pixels
                  twice == Rat(after.n * before.d - before.n * after.d,
                               after.d * before.d * 50)
                  rounded == IF Less(twice, Zero) THEN Floor(twice) ELSE Ceil(twice)
              IN WriteScrollLeft(s1, s1.dom.scrollLeft + rounded * 50)
         ELSE s1

\* Renderer.initDrag(): one more makeDraggable subscription on the wrapper
InitDrag(s) == [s EXCEPT !.trackers = Append(@, [unsub |-> 0, attached |-> TRUE])]

\* Renderer.zoom(minPxPerSec)
Zoom(s, minPxPerSec) == ReRender([s EXCEPT !.opt.minPxPerSec = minPxPerSec])

\* Renderer.parentFromOptionsContainer(container): whether a parent is found
ParentFromOptionsContainer(container) ==
  IF container.type = "string" THEN container.matches
  ELSE container.type = "element"

\* A setOptions that takes the options over before it resolves the container.
SetOptionsAssignFirst(s, options) ==
  LET s1 == [s EXCEPT !.opt = options]
  IN IF s.opt.container # options.container
          /\ ~ParentFromOptionsContainer(options.container)
       THEN [s1 EXCEPT !.obs.setOptions =
                        Some([threw |-> TRUE, container |-> options.container])]
       ELSE [ReRender(IF options.dragToSeek THEN InitDrag(s1) ELSE s1)
               EXCEPT !.obs.setOptions =
                        Some([threw |-> FALSE, container |-> options.container])]

\* Renderer.setOptions(options): a container other than the one in force is
\* resolved first, and the call throws when it cannot be; the resolved parent
\* takes the Renderer's container.  options.dragToSeek is true or false here
\* (never the object form), so initDrag() runs exactly when it is true.
\* obs.setOptions keeps the container of the call and whether it threw.
SetOptions(s, options) ==
  IF s.opt.container # options.container
       /\ ~ParentFromOptionsContainer(options.container)
    THEN [s EXCEPT !.obs.setOptions =
                     Some([threw |-> TRUE, container |-> options.container])]
    ELSE
      LET s0 == IF s.opt.container # options.container
                  THEN [s EXCEPT !.r.parent = TRUE, !.dom.mounted = TRUE]
                  ELSE s
          s1 == IF options.dragToSeek THEN InitDrag(s0) ELSE s0
      IN [ReRender([s1 EXCEPT !.opt = options])
            EXCEPT !.obs.setOptions =
                     Some([threw |-> FALSE, container |-> options.container])]

\* A callback that leaves the wait of the notification before in place.
OnResizeObservedKeep(s) ==
  LET id == Fresh({t.id : t \in s.timers} \cup {s.r.interactionTimeout})
  IN [SetTimeout(s, id, "resize")
        EXCEPT !.r.resizeId = id,
               !.obs.resized = Some([pending |-> s.r.resizeId # 0])]

\* The ResizeObserver callback: delay() clears the wait of the previous
\* notification (its promise rejects into the empty catch) and starts one of
\* 100 ms, by requestIdleCallback or by setTimeout.
\* obs.resized keeps whether the notification found a wait pending.
OnResizeObserved(s) ==
  LET s1 == ClearResize(s)
      id == Fresh({t.id : t \in s1.timers} \cup {s1.r.interactionTimeout})
  IN [SetTimeout(s1, id, "resize")
        EXCEPT !.r.resizeId = id,
               !.obs.resized = Some([pending |-> s.r.resizeId # 0])]

\* Renderer.onContainerResize(), with a numeric options.height
OnContainerResize(s) ==
  LET width == s.dom.clientWidth
  IN IF width = s.r.lastContainerWidth THEN s
     ELSE ReRender([s EXCEPT !.r.lastContainerWidth = width])

\* The function makeDraggable returned for subscription t:
\* unsubscribeDocument() of its latest session, and its pointerdown listener
\* leaves the wrapper.
Unsubscribe(s, t) ==
  [UnsubscribeDocument(s, s.trackers[t].unsub) EXCEPT !.trackers[t].attached = FALSE]

\* this.subscriptions.forEach((unsubscribe) => unsubscribe())
RECURSIVE UnsubscribeTrackers(_, _)
UnsubscribeTrackers(s, t) ==
  IF t > Len(s.trackers) THEN s
  ELSE UnsubscribeTrackers(Unsubscribe(s, t), t + 1)

\* Renderer.destroy()
Destroy(s) ==
  LET s1 == UnsubscribeOnScroll(UnsubscribeTrackers(s, 1))
      s2 == [s1 EXCEPT !.r.domSubscriptions = FALSE,
                       !.dom.mounted = FALSE,
                       !.r.resizeObserver = FALSE]
      s3 == StopContinuousScroll(StopRealTimeCursorUpdates(s2))
      s4 == IF s3.r.interactionTimeout # 0
              THEN [ClearTimeout(s3, s3.r.interactionTimeout)
                      EXCEPT !.r.interactionTimeout = 0]
              ELSE s3
  IN IF s4.lenis.alive
       THEN [s4 EXCEPT !.lenis = [@ EXCEPT !.alive = FALSE, !.isStopped = TRUE,
                                             !.target = Null, !.live = @ - 1]]
       ELSE s4

\* Renderer.initEvents(): the wrapper's listeners, the drag tracker when
\* dragToSeek is set, and the ResizeObserver with its delay.
InitEvents(s) ==
  LET s1 == [s EXCEPT !.r.domSubscriptions = TRUE]
      s2 == IF s1.opt.dragToSeek THEN InitDrag(s1) ELSE s1
  IN [s2 EXCEPT !.r.timeouts = TRUE, !.r.resizeObserver = TRUE]

\* A constructor that mounts its elements before it resolves the container.
ConstructMountFirst(s, options, container) ==
  LET s1 == [s EXCEPT !.opt = [options EXCEPT !.container = container],
                      !.dom.mounted = TRUE]
  IN IF ~ParentFromOptionsContainer(container)
       THEN [s1 EXCEPT !.obs.constructed = Some([container |-> container, threw |-> TRUE])]
       ELSE [InitLenis(InitEvents([s1 EXCEPT !.r.parent = TRUE]))
               EXCEPT !.obs.constructed = Some([container |-> container, threw |-> FALSE])]

\* new Renderer(options): obs.constructed keeps the container and whether the
\* constructor threw; a constructor that throws leaves the state it had
\* reached.
Construct(s, options, container) ==
  LET s1 == [s EXCEPT !.opt = [options EXCEPT !.container = container]]
  IN IF ~ParentFromOptionsContainer(container)
       THEN [s1 EXCEPT !.obs.constructed = Some([container |-> container, threw |-> TRUE])]
       ELSE [InitLenis(InitEvents([s1 EXCEPT !.r.parent = TRUE, !.dom.mounted = TRUE]))
               EXCEPT !.obs.constructed = Some([container |-> container, threw |-> FALSE])]

----------------------------------------------------------------------------
(* The browser: event dispatch, frames and timers *)

\* Records that a callback the browser scheduled runs, and whether the
\* Renderer's container is still in the document.
RunCallback(s, kind) ==
  [s EXCEPT !.obs.callbacks = Append(@, [kind |-> kind, mounted |-> s.dom.mounted])]

\* Dispatch of a document-level pointer event to the sessions' listeners in
\* the order they were added.  A listener removed earlier in the same dispatch
\* is not called.
RECURSIVE DispatchDocument(_, _, _, _, _, _, _)
DispatchDocument(s, sids, type, x, y, relatedTargetIsNull, timeDelta) ==
  IF sids = <<>> THEN s
  ELSE
    LET sid == Head(sids)
        s1 == IF HasSession(s, sid) /\ SessionOf(s, sid).listening
                THEN CASE type = "pointermove" -> OnPointerMove(s, sid, x, y, timeDelta)
                       [] type = "pointerup" -> OnPointerUp(s, sid, x)
                       [] OTHER -> OnPointerLeave(s, sid, x, relatedTargetIsNull)
                ELSE s
    IN DispatchDocument(s1, Tail(sids), type, x, y, relatedTargetIsNull, timeDelta)

ListenerOrder(s) == [i \in 1..Len(s.sessions) |-> s.sessions[i].sid]

\* The capture-phase click listeners on the document, one per session until
\* its timer removes it: onClick stops the propagation when its session has
\* called onStart.
ClickStopped(s) ==
  \E i \in 1..Len(s.sessions) :
    s.sessions[i].clickListening /\ s.sessions[i].isDragging

\* Dispatch of a click at clientX x on the wrapper: the capture phase on the
\* document, then the wrapper's listener, which emits 'click' with the
\* relative position.
DispatchClick(s, x) ==
  IF ClickStopped(s) \/ ~s.r.domSubscriptions THEN s
  ELSE Emit(s, "click", JsDiv(x - WrapperLeft(s), WrapperWidth(s)))

\* What a pointerup over the wrapper releases: the session of the latest
\* pointerdown, if one is left, with its isDragging and whether the pointer
\* last seen by it is beyond the threshold.
Released(s) ==
  IF s.sessions = <<>> THEN [session |-> FALSE, dragging |-> FALSE, beyond |-> FALSE]
  ELSE LET se == s.sessions[Len(s.sessions)]
       IN [session |-> TRUE, dragging |-> se.isDragging,
           beyond |-> Abs(se.lastMouseX - se.initialMouseX) > THRESHOLD]

\* Dispatch of pointerdown to the trackers' listeners on the wrapper.
RECURSIVE DispatchPointerDown(_, _, _, _, _)
DispatchPointerDown(s, t, x, y, button) ==
  IF t > Len(s.trackers) THEN s
  ELSE DispatchPointerDown(IF s.trackers[t].attached
                             THEN OnPointerDown(s, t, x, y, button)
                             ELSE s,
                           t + 1, x, y, button)

\* One animation frame: the callbacks queued when the frame begins run in
\* request order; one cancelled by an earlier callback of the frame is skipped.
RECURSIVE RunFrame(_, _)
RunFrame(s, ids) ==
  IF ids = <<>> THEN s
  ELSE
    LET id == Head(ids)
    IN IF ~RafPending(s, id) THEN RunFrame(s, Tail(ids))
       ELSE
         LET e == CHOOSE c \in SeqToSet(s.raf) : c.id = id
             s0 == RunCallback(CancelAnimationFrame(s, id), e.kind)
             s1 == CASE e.kind = "cursor" -> UpdateCursor(s0)
                     [] e.kind = "scroll" -> ScrollTick(s0, e)
                     [] OTHER -> DragFrame(s0, e)
         IN RunFrame(s1, Tail(ids))

\* A task whose promise callbacks never run.
NoMicrotasks(s) == s

\* The promise callback render() queues: 'rendered' follows each 'render'
\* once the task's synchronous code has returned.
Microtasks(s) ==
  LET IsRender(e) == e.ev = "render"
  IN [s EXCEPT !.obs.emitted = @ \o [i \in 1..Len(SelectSeq(@, IsRender)) |->
                                        [ev |-> "rendered", p |-> Zero]]]

\* Closures nothing can reach any more are dropped from the state: a session
\* with no listener left and no frame callback queued.
Collect(s) ==
  LET Kept(t) ==
        LET Live(se) == \/ se.listening
                        \/ se.clickListening
                        \/ \E e \in SeqToSet(t.raf) : e.kind = "drag" /\ e.sid = se.sid
        IN SelectSeq(t.sessions, Live)
      Drop(t) ==
        LET ids == {se.sid : se \in SeqToSet(t.sessions)}
        IN [t EXCEPT !.trackers = [i \in 1..Len(@) |->
                                     IF @[i].unsub \in ids THEN @[i]
                                     ELSE [@[i] EXCEPT !.unsub = 0]]]
      Keep(t) == With([t EXCEPT !.sessions = Kept(t)], Drop)
  IN With(s, Keep)

\* The end of a task: the microtasks run and the state is committed.
Commit(s) ==
  \E c \in {Collect(Microtasks(s))} :
     /\ variant' = c.variant
     /\ opt' = c.opt
     /\ r' = c.r
     /\ dom' = c.dom
     /\ lenis' = c.lenis
     /\ raf' = c.raf
     /\ timers' = c.timers
     /\ trackers' = c.trackers
     /\ sessions' = c.sessions
     /\ tiles' = c.tiles
     /\ obs' = c.obs

----------------------------------------------------------------------------
(* Initial state: a Renderer just constructed with dragToSeek enabled, on a  *)
(* desktop pointer (matchMedia('(pointer: coarse)') is false).  v is the    *)
(* makeDraggable the build resolves; fillParent and minPxPerSec are the     *)
(* options of those names.                                                  *)

\* The field initialisers of a Renderer whose constructor has not run:
\* nothing mounted, no listener, no observer and no scroll controller.
Fields(v, options, clientWidth) ==
  [variant |-> v,
   opt |-> options,
   r |-> [isDragging |-> FALSE, isScrollable |-> FALSE, isUserInteracting |-> FALSE,
          interactionTimeout |-> 0, animationFrameId |-> 0,
          continuousScrollInterval |-> 0, continuousScrollDirection |-> "none",
          lastCursorProgress |-> Num(-1), realTimeProgress |-> Null,
          dragRelativeX |-> Null, lastDragMouseX |-> Null, wrapperRect |-> Null,
          audioData |-> FALSE, lastContainerWidth |-> 0, timeouts |-> FALSE,
          resizeId |-> 0,
          domSubscriptions |-> FALSE, resizeObserver |-> FALSE, parent |-> FALSE],
   dom |-> [clientWidth |-> clientWidth, wrapperFill |-> TRUE, wrapperPx |-> 0,
            scrollLeft |-> 0, cursorLeft |-> Zero, progressWidth |-> Zero,
            mounted |-> FALSE],
   lenis |-> [alive |-> FALSE, isStopped |-> FALSE, target |-> Null,
              lastLenisHash |-> "", instance |-> 0, live |-> 0],
   raf |-> <<>>,
   timers |-> {},
   trackers |-> <<>>,
   sessions |-> <<>>,
   tiles |-> NoTiles,
   obs |-> [emitted |-> <<>>, cursorWrites |-> <<>>, fault |-> "none",
            sample |-> Null, calls |-> <<>>, scrollCalls |-> <<>>,
            callbacks |-> <<>>, exported |-> Null, zoom |-> Null,
            scrolled |-> Null, draws |-> <<>>, constructed |-> Null,
            gesture |-> <<>>, released |-> Null, click |-> Null,
            drags |-> <<>>, rendering |-> Null, stale |-> FALSE, direct |-> FALSE, writers |-> <<>>, resized |-> Null,
                     sampled |-> Null, accumulated |-> Null, setOptions |-> Null,
                     slices |-> Null, requested |-> Null]]

\* The variables hold the state s.
Holds(s) ==
  /\ variant = s.variant
  /\ opt = s.opt
  /\ r = s.r
  /\ dom = s.dom
  /\ lenis = s.lenis
  /\ raf = s.raf
  /\ timers = s.timers
  /\ trackers = s.trackers
  /\ sessions = s.sessions
  /\ tiles = s.tiles
  /\ obs = s.obs

Options(fillParent, minPxPerSec, dragToSeek, barWidth) ==
  [minPxPerSec |-> minPxPerSec, fillParent |-> fillParent, autoScroll |-> TRUE,
   autoCenter |-> TRUE, dragToSeek |-> dragToSeek, barWidth |-> barWidth,
   barGap |-> 0, container |-> [type |-> "element", matches |-> TRUE]]

BootWith(v, fillParent, minPxPerSec, clientWidth, barWidth) ==
  LET options == Options(fillParent, minPxPerSec, TRUE, barWidth)
  IN Holds(Begin(Construct(Fields(v, options, clientWidth), options,
                           [type |-> "element", matches |-> TRUE])))

\* No bar options, in the 200px host.
Boot(v, fillParent, minPxPerSec) ==
  BootWith(v, fillParent, minPxPerSec, VIEWPORT_WIDTH, 0)

----------------------------------------------------------------------------
(* Actions: one browser task each *)

\* The timer that removes a session's click listener runs 10ms after the
\* release.  Its callback touches nothing another handler reads, so against
\* every task but a click its order is immaterial: it runs before them.
Settled == \A t \in timers : t.kind # "click"

\* pointerdown on the wrapper: the Renderer's listener, then each tracker's.
PointerDown ==
  \E x \in PointerXs, y \in PointerYs, button \in Buttons :
    /\ Settled
    /\ HitsWrapper(State, x, y)
    /\ button = MOUSE_BUTTON => Len(sessions) + Len(trackers) <= MaxSessions
    /\ Commit(DispatchPointerDown(StartUserInteraction(Begin(State)), 1, x, y, button))

\* pointerdown of a device with one pointer (a mouse): the previous press has
\* been released, left the window or been cancelled.
MouseDown ==
  /\ \A i \in 1..Len(sessions) : ~sessions[i].listening
  /\ PointerDown

\* pointermove, delivered to the document; obs.sampled keeps its timeDelta
PointerMove ==
  \E x \in PointerXs, y \in PointerYs, timeDelta \in TimeDeltas :
    /\ Settled
    /\ \E i \in 1..Len(sessions) : sessions[i].listening
    /\ Commit(DispatchDocument([Begin(State) EXCEPT !.obs.sampled = Some(timeDelta)],
                                ListenerOrder(State), "pointermove",
                                x, y, FALSE, timeDelta))

\* pointerup: the wrapper's listener when the pointer is over it, then the
\* document's listeners.
PointerUp ==
  \E x \in ReleaseXs, y \in PointerYs :
    LET s0 == Begin(State)
        s1 == IF HitsWrapper(s0, x, y)
                THEN [EndUserInteraction(s0) EXCEPT !.obs.released = Some(Released(s0))]
                ELSE s0
    IN Settled /\ Commit(DispatchDocument(s1, ListenerOrder(s1), "pointerup", x, y, FALSE, 0))

\* The click the browser dispatches after a pointerup over the wrapper, before
\* any other task; obs.click keeps what that pointerup released.
Click ==
  \E x \in ReleaseXs :
    /\ obs.released # Null
    /\ HitsWrapper(State, x, 0)
    /\ Commit(DispatchClick([Begin(State) EXCEPT !.obs.click = obs.released], x))

\* The pointer leaves an element: pointerout bubbles to the document, then
\* pointerleave is delivered to the wrapper when the wrapper is what it left.
PointerOut ==
  \E x \in ReleaseXs, relatedTargetIsNull \in BOOLEAN, leavesWrapper \in BOOLEAN :
    /\ Settled
    /\ relatedTargetIsNull \/ leavesWrapper
    /\ LET s0 == Begin(State)
           s1 == DispatchDocument(s0, ListenerOrder(s0), "pointerout", x, 0,
                                  relatedTargetIsNull, 0)
       IN Commit(IF leavesWrapper THEN EndUserInteraction(s1) ELSE s1)

\* pointercancel (its relatedTarget is null)
PointerCancel ==
  \E x \in ReleaseXs, y \in PointerYs :
    LET s0 == Begin(State)
        s1 == IF HitsWrapper(s0, x, y) THEN EndUserInteraction(s0) ELSE s0
    IN Settled /\ Commit(DispatchDocument(s1, ListenerOrder(s1), "pointercancel", x, y, TRUE, 0))

\* One animation frame.
Frame ==
  /\ Settled
  /\ raf # <<>>
  /\ \A e \in SeqToSet(raf) : e.ticks < MaxAutoScrollTicks
  /\ Commit(RunFrame(Begin(State), [i \in 1..Len(raf) |-> raf[i].id]))

\* A timer expires.
TimerFire ==
  \E t \in timers :
    LET s0 == RunCallback([Begin(State) EXCEPT !.timers = @ \ {t}], t.kind)
    IN (t.kind = "click" \/ Settled) /\
       Commit(CASE t.kind = "resize" ->
                     OnContainerResize([s0 EXCEPT !.r.resizeId = 0])
                [] t.kind = "click" -> RemoveClickListener(s0, t.sid)
                [] OTHER -> InteractionTimeout(s0))

\* The ResizeObserver reports the scroll container's size: once when it is
\* first observed, then whenever it changes.
Resize ==
  /\ Settled
  /\ r.resizeObserver
  /\ Commit(OnResizeObserved(Begin(State)))

\* new Renderer(options) when none exists.
ConstructCall ==
  \E container \in Containers, f \in BOOLEAN, d \in BOOLEAN, m \in MinPxPerSecs :
    /\ Settled
    /\ ~r.parent
    /\ Commit(Construct(Begin(State), Options(f, m, d, 0), container))

DestroyCall ==
  /\ Settled
  /\ dom.mounted
  /\ Commit(Destroy(Begin(State)))

\* destroy() called again on a destroyed Renderer: the functions makeDraggable
\* returned are called a second time.
DestroyAgain ==
  /\ Settled
  /\ r.parent
  /\ ~dom.mounted
  /\ Commit(Destroy(Begin(State)))

\* The controller's animation loop reaches its target and reports the scroll.
LenisRaf ==
  /\ Settled
  /\ lenis.alive /\ ~lenis.isStopped /\ lenis.target # Null
  /\ LET s0 == Begin(State)
         s1 == [SetScrollLeft(s0, Val(s0.lenis.target)) EXCEPT !.lenis.target = Null]
     IN Commit(SyncCursorWithScroll(OnScroll(Emit(s1, "scroll", Zero))))

\* The scroll container is scrolled to x by the wheel or the scrollbar; its
\* scroll listener emits 'scroll'.
ScrollTo ==
  \E x \in ScrollLefts :
    /\ Settled
    /\ dom.mounted
    /\ r.isScrollable
    /\ x # dom.scrollLeft
    /\ Commit(OnScroll(Emit(SetScrollLeft(Begin(State), x), "scroll", Zero)))

\* The scroll listener of initEvents, after a call that may have moved the
\* scroll container away from the offset before.
NativeScroll(s, before) ==
  LET Report(t) == IF t.dom.scrollLeft # before
                     THEN OnScroll(Emit(t, "scroll", Zero))
                     ELSE t
  IN With(s, Report)

\* setScroll(x) on the mounted Renderer, and the scroll event that follows.
SetScrollCall ==
  \E x \in ScrollLefts :
    /\ Settled
    /\ dom.mounted
    /\ Commit(NativeScroll(SetScroll(Begin(State), x), dom.scrollLeft))

\* setScrollPercentage(p) on the mounted Renderer, and the scroll event that
\* follows.
SetScrollPercentageCall ==
  \E p \in ScrollPercents :
    /\ Settled
    /\ dom.mounted
    /\ Commit(NativeScroll(SetScrollPercentage(Begin(State), p), dom.scrollLeft))

ExportImageCall ==
  \E type \in {"dataURL", "blob"} : Settled /\ Commit(ExportImage(Begin(State), type))

RenderCall == Settled /\ Commit(Render(Begin(State)))

ZoomCall == \E m \in MinPxPerSecs : Settled /\ Commit(Zoom(Begin(State), m))

\* zoom(m), with what the call found: whether a waveform was rendered at m,
\* the scrollable width, isScrollable, the scroll offset and the cursor's
\* position on the screen.
ZoomIn ==
  \E m \in ZoomLevels :
    LET s0 == Begin(State)
        s1 == Zoom(s0, m)
    IN Settled /\ Commit([s1 EXCEPT !.obs.zoom =
         Some([same |-> s0.r.audioData /\ s0.opt.minPxPerSec = m,
               scrollWidth |-> ScrollWidth(s0),
               isScrollable |-> s0.r.isScrollable,
               scrollLeft |-> s0.dom.scrollLeft,
               cursorX |-> CursorX(s0)])])

SetOptionsCall ==
  \E f \in BOOLEAN :
    /\ Settled
    /\ Len(trackers) < MaxTrackers
    /\ Commit(SetOptions(Begin(State), [opt EXCEPT !.fillParent = f]))

\* setOptions() with drag-to-seek switched on or off and with the container
\* in force or another one
SetOptionsWith ==
  \E d \in BOOLEAN, c \in Containers :
    /\ Settled
    /\ Len(trackers) < MaxTrackers
    /\ Commit(SetOptions(Begin(State), [opt EXCEPT !.dragToSeek = d, !.container = c]))

RenderProgressCall ==
  \E p \in ProgressInputs, isPlaying \in BOOLEAN :
    Settled /\ Commit(RenderProgress(Begin(State), p, isPlaying))

\* Two calls of updateCursorPosition in a row, with what each found cached and
\* how many writes of the cursor it made.
UpdateCursorPositionCalls ==
  \E p \in CursorInputs, q \in CursorInputs :
    LET s0 == Begin(State)
        s1 == UpdateCursorPosition(s0, p)
        s2 == UpdateCursorPosition(s1, q)
    IN Settled /\ Commit([s2 EXCEPT !.obs.calls =
         <<[p |-> p, cached |-> s0.r.lastCursorProgress,
            writes |-> Len(s1.obs.cursorWrites)],
           [p |-> q, cached |-> s1.r.lastCursorProgress,
            writes |-> Len(s2.obs.cursorWrites) - Len(s1.obs.cursorWrites)]>>])

\* The build that resolves makeDraggable to src/unnamed/part_004
Init == Boot("direct", FALSE, 0)
\* The build that resolves makeDraggable to src/src/draggable.ts
InitDeferred == Boot("deferred", TRUE, 5)
\* The default of fillParent
InitFill == Boot("direct", TRUE, 0)

\* One pointer (a mouse) and the calls that lay the waveform out.
Next ==
  \/ MouseDown
  \/ PointerMove
  \/ PointerUp
  \/ PointerOut
  \/ PointerCancel
  \/ Frame
  \/ TimerFire
  \/ LenisRaf
  \/ RenderCall
  \/ ZoomCall

\* One pointer and a waveform rendered at the zoom it is constructed with.
NextDeferred ==
  \/ MouseDown
  \/ PointerMove
  \/ PointerUp
  \/ Frame
  \/ TimerFire
  \/ RenderCall

\* Several pointers (touches, or a pen beside a mouse) on the layout the
\* Renderer is constructed with.
NextPointers ==
  \/ PointerDown
  \/ PointerMove
  \/ PointerUp
  \/ PointerOut
  \/ PointerCancel
  \/ Frame
  \/ TimerFire
  \/ SetOptionsCall

\* The public API alone.
NextApi ==
  \/ RenderCall
  \/ ZoomCall
  \/ SetOptionsCall
  \/ RenderProgressCall
  \/ LenisRaf

Spec == Init /\ [][Next]_vars
SpecDeferred == InitDeferred /\ [][NextDeferred]_vars
SpecPointers == InitFill /\ [][NextPointers]_vars
SpecApi == InitFill /\ [][NextApi]_vars

\* updateCursorPosition on its own, from the constructed Renderer.
NextCursor == UpdateCursorPositionCalls
SpecCursor == InitFill /\ [][NextCursor]_vars

\* A mouse that presses and releases without moving, over a waveform that
\* playback advances.
NextProgress ==
  \/ MouseDown
  \/ PointerUp
  \/ TimerFire
  \/ RenderCall
  \/ RenderProgressCall
  \/ LenisRaf
\* minPxPerSec = 5: content of 201px in the 200px viewport
InitZoomed == Boot("direct", FALSE, 5)
SpecProgress == InitZoomed /\ [][NextProgress]_vars

\* The life of a Renderer: resizes, renders, a mouse, and destroy().
NextLifecycle ==
  \/ Resize
  \/ TimerFire
  \/ DestroyCall
  \/ (dom.mounted /\ RenderCall)
  \/ MouseDown
  \/ PointerMove
  \/ PointerUp
  \/ Frame
SpecLifecycle == InitZoomed /\ [][NextLifecycle]_vars

\* A waveform of 2807px scrolled through the 200px viewport.
NextTiles ==
  \/ RenderCall
  \/ ZoomIn
  \/ ScrollTo
  \/ ExportImageCall
InitTiles == Boot("direct", FALSE, 70)
SpecTiles == InitTiles /\ [][NextTiles]_vars

\* From before the constructor to after destroy().
InitBlank == Holds(Fields("direct", Options(TRUE, 0, FALSE, 0), VIEWPORT_WIDTH))
NextConstruct ==
  \/ ConstructCall
  \/ (dom.mounted /\ RenderCall)
  \/ DestroyCall
  \/ Resize
  \/ TimerFire
  \/ MouseDown
  \/ PointerUp
SpecConstruct == InitBlank /\ [][NextConstruct]_vars

\* The layout of the tiles, for each host width, bar option, fillParent and
\* zoom the Renderer is constructed with.
InitLayout ==
  \E w \in ViewportWidths, b \in BarWidths, f \in BOOLEAN, m \in LayoutZooms :
    BootWith("direct", f, m, w, b)
NextLayout ==
  \/ RenderCall
  \/ ZoomCall
  \/ SetOptionsCall
  \/ ExportImageCall
SpecLayout == InitLayout /\ [][NextLayout]_vars

\* The sample ranges of the tiles of the layout in force, for a channel of
\* each length: obs.slices keeps the length and the range of every index.
SliceChannel ==
  \E length \in ChannelLengths :
    /\ Settled
    /\ tiles.numCanvases > 0
    /\ Commit([Begin(State) EXCEPT !.obs.slices =
         Some([length |-> length,
               ranges |-> [i \in 0..(tiles.numCanvases - 1) |->
                            [start |-> SliceStart(State, i, length),
                             end |-> SliceEnd(State, i, length)]]])])

\* The layouts of the tiles and the sample ranges they slice.
NextSlices ==
  \/ RenderCall
  \/ ZoomIn
  \/ SliceChannel
SpecSlices == InitLayout /\ [][NextSlices]_vars

\* The waveform of 2807px scrolled by the calls of the public API.
NextScroll ==
  \/ RenderCall
  \/ ZoomIn
  \/ SetScrollCall
  \/ SetScrollPercentageCall
SpecScroll == InitTiles /\ [][NextScroll]_vars

\* A pointermove inside the right edge zone, outside the throttle interval.
EdgeMove ==
  \E x \in EdgeXs, y \in PointerYs :
    /\ Settled
    /\ \E i \in 1..Len(sessions) : sessions[i].listening
    /\ Commit(DispatchDocument(Begin(State), ListenerOrder(State), "pointermove",
                                x, y, FALSE, MIN_DRAG_INTERVAL_RAF))

\* An animation frame of a run of auto-scroll that is followed for
\* MaxRampTicks frames.
RampFrame ==
  /\ Settled
  /\ raf # <<>>
  /\ \A e \in SeqToSet(raf) : e.ticks < MaxRampTicks
  /\ Commit(RunFrame(Begin(State), [i \in 1..Len(raf) |-> raf[i].id]))

\* A mouse dragged inside the right edge zone of a scrollable waveform.
NextRamp ==
  \/ MouseDown
  \/ EdgeMove
  \/ RampFrame
  \/ PointerUp
  \/ TimerFire
SpecRamp == InitZoomed /\ [][NextRamp]_vars

\* setOptions() calls between the gestures of a mouse.
NextOptions ==
  \/ SetOptionsWith
  \/ MouseDown
  \/ PointerMove
  \/ PointerUp
  \/ TimerFire
SpecOptions == InitFill /\ [][NextOptions]_vars

\* Presses and releases of several pointers, each release followed or not by
\* its click.
NextClick ==
  \/ PointerDown
  \/ PointerMove
  \/ PointerUp
  \/ Click
  \/ TimerFire
SpecClick == InitFill /\ [][NextClick]_vars

\* The frame-deferred tracker under a mouse, until and after destroy().
NextUnsubscribe ==
  \/ MouseDown
  \/ PointerMove
  \/ PointerUp
  \/ Frame
  \/ TimerFire
  \/ DestroyCall
  \/ DestroyAgain
SpecUnsubscribe == InitDeferred /\ [][NextUnsubscribe]_vars

----------------------------------------------------------------------------
(* Properties *)

ListeningSessions == {i \in 1..Len(sessions) : sessions[i].listening}
LoopPending == \E e \in SeqToSet(raf) : e.kind \in {"cursor", "scroll"}
ScrollLoopPending == \E e \in SeqToSet(raf) : e.kind = "scroll"
DragEvents == {"dragstart", "drag", "dragend"}
EdgeZone == VIEWPORT_WIDTH \div 5
InCentre(x) == x - CONTAINER_LEFT >= EdgeZone /\ x - CONTAINER_LEFT <= VIEWPORT_WIDTH - EdgeZone

\* C1: each gesture (tracker session) emits one dragstart before its first
\* drag, one dragend, and no drag after its dragend: no session calls onDrag
\* or onEnd again once it has called onEnd.
C1_OneEndPerGesture == obs.fault = "none"

\* C2: at most one tracker session holds document-level pointer listeners.
C2_AtMostOneSession == Cardinality(ListeningSessions) <= 1

\* C3: whenever isDragging is false, neither the cursor-follow loop nor the
\* auto-scroll loop has a frame callback pending.
C3_NoLoopWhenIdle == ~r.isDragging => ~LoopPending

\* C4: when the rendered content is not scrollable, no continuous-scroll
\* direction is set and no auto-scroll frame loop is started.
C4_NoAutoScrollUnlessScrollable ==
  (r.audioData /\ ~r.isScrollable) =>
    (r.continuousScrollDirection = "none" /\ ~ScrollLoopPending)

\* C5: during a drag, once a drag sample whose pointer X lies in the central
\* 60% of the viewport has been handled, auto-scroll is stopped.
C5_CentreSampleStops ==
  (r.isDragging /\ obs.sample # Null /\ InCentre(Val(obs.sample))) =>
    (r.continuousScrollDirection = "none" /\ ~ScrollLoopPending)

\* C6: every progress value emitted with dragstart, drag or dragend lies in
\* [0, 1].
C6_EmittedProgressInUnit ==
  \A i \in 1..Len(obs.emitted) :
    obs.emitted[i].ev \in DragEvents => InUnit(obs.emitted[i].p)

\* C7: the cached cursor progress is the sentinel -1 or lies in [0, 1], and
\* the overlay width and the cursor position lie within 0%..100%.
C7_ProgressStateInUnit ==
  /\ r.lastCursorProgress = Num(-1) \/ InUnit(r.lastCursorProgress)
  /\ InUnit(dom.progressWidth)
  /\ InUnit(dom.cursorLeft)

\* C8, as amended: a call of updateCursorPosition writes the cursor exactly
\* when its argument is not NaN and differs from the cached progress, after
\* which the cache holds the argument; so the second of two calls in a row
\* with the same argument never writes.
C8_WritesIffChanged ==
  /\ \A i \in 1..Len(obs.calls) :
       obs.calls[i].writes =
         (IF ~IsNaN(obs.calls[i].p) /\ obs.calls[i].p # obs.calls[i].cached THEN 1 ELSE 0)
  /\ Len(obs.calls) = 2 =>
       /\ obs.calls[1].p = obs.calls[2].p => obs.calls[2].writes = 0
       /\ ~IsNaN(obs.calls[1].p) => obs.calls[2].cached = obs.calls[1].p
       /\ ~IsNaN(obs.calls[2].p) =>
            r.lastCursorProgress = obs.calls[2].p /\ dom.cursorLeft = obs.calls[2].p

\* C8, as stated: two calls in a row with the same p write exactly once (the
\* second not at all), and a call with a different p always writes.
C8_AsStated ==
  Len(obs.calls) = 2 =>
    /\ obs.calls[1].p = obs.calls[2].p =>
         (obs.calls[1].writes = 1 /\ obs.calls[2].writes = 0)
    /\ obs.calls[1].p # obs.calls[2].p => obs.calls[2].writes = 1

\* Two calls in a row with the same p, the first of which wrote.
C8_Witness ==
  /\ Len(obs.calls) = 2
  /\ obs.calls[1].p = obs.calls[2].p
  /\ obs.calls[1].writes = 1
  /\ obs.calls[2].writes = 0
  /\ dom.cursorLeft = obs.calls[1].p

\* ceil(duration * minPxPerSec) in pixels, by its definition: the least
\* integer not below the product (the duration is in tenths of a second).
ContentWidth(duration, minPxPerSec) ==
  CHOOSE w \in 0..(duration * minPxPerSec) :
    w * 10 >= duration * minPxPerSec /\ (w - 1) * 10 < duration * minPxPerSec

\* C9: after every render pass isScrollable is true exactly when the content
\* width ceil(duration * minPxPerSec) exceeds the viewport width; 10 s at
\* 100 px/s give 1000px, scrollable in 500px, and at 40 px/s 400px, not
\* scrollable.
C9_ScrollableIffWider ==
  /\ r.audioData =>
       /\ r.isScrollable =
            (ContentWidth(AUDIO_DURATION, opt.minPxPerSec) * 100 > dom.clientWidth)
       /\ ~dom.wrapperFill =>
            dom.wrapperPx = ContentWidth(AUDIO_DURATION, opt.minPxPerSec) * 100
  /\ RenderScrollWidth(100, 100) = 1000
  /\ RenderScrollWidth(100, 100) > 500
  /\ RenderScrollWidth(100, 40) = 400
  /\ ~(RenderScrollWidth(100, 40) > 500)

\* A render pass whose content, 200.5px rounded up to 201px, is wider than the
\* 200px viewport.
C9_Witness ==
  /\ r.audioData
  /\ opt.minPxPerSec = 5
  /\ r.isScrollable
  /\ dom.wrapperPx = 20100

\* C10: while a drag is active (dragstart emitted, dragend not yet) the
\* inertial scroll controller is paused and the interacting flag is true.
C10_PausedWhileDragging ==
  r.isDragging => (r.isUserInteracting /\ lenis.isStopped)

\* C11: after a pointer-up, pointer-leave or pointer-cancel on the wrapper the
\* interacting flag is true until the 500ms timer of endUserInteraction
\* expires: while that timer is pending, the flag is true.
C11_InteractingUntilTimeout ==
  (\E t \in timers : t.kind = "interaction") => r.isUserInteracting

\* C12: a call of scrollIntoView made while the interacting flag is true and
\* the caller does not report playback changes neither the scroll offset nor
\* the controller's scroll target; a call made while audio is playing
\* proceeds although the user is interacting: with the progress beyond the
\* viewport's end and room left to scroll, the scroll offset advances.
C12_NoScrollWhileInteracting ==
  \A i \in 1..Len(obs.scrollCalls) :
    LET c == obs.scrollCalls[i]
    IN /\ (c.interacting /\ ~c.isPlaying) =>
            (c.after = c.before /\ c.targetAfter = c.targetBefore)
       /\ (c.interacting /\ c.isPlaying /\ ~c.dragging
             /\ Less(Num(c.before + dom.clientWidth), Times(c.progress, ScrollWidth(State)))
             /\ c.before < MaxScrollLeft(State)) =>
            c.after > c.before

\* scrollIntoView ran without playback while the user was interacting, with
\* the progress beyond the viewport's end and room left to scroll.
C12_Witness ==
  \E i \in 1..Len(obs.scrollCalls) :
    LET c == obs.scrollCalls[i]
    IN /\ c.interacting
       /\ ~c.isPlaying
       /\ Less(Num(c.before + dom.clientWidth), Times(c.progress, ScrollWidth(State)))
       /\ c.before < MaxScrollLeft(State)
       /\ c.after = c.before

\* C13: after destroy() no callback the Renderer scheduled (interaction
\* timer, cursor-follow frame, auto-scroll frame, resize debounce) runs: every
\* such callback that runs finds the Renderer's container still mounted.
C13_NoCallbackAfterDestroy ==
  \A i \in 1..Len(obs.callbacks) :
    obs.callbacks[i].kind \in {"interaction", "cursor", "scroll", "resize"} =>
      obs.callbacks[i].mounted

EmittedAt(ev) == {i \in 1..Len(obs.emitted) : obs.emitted[i].ev = ev}

Window(index) == {i \in (index - 1)..(index + 1) : i >= 0 /\ i < tiles.numCanvases}

\* C15: the tiles drawn in the tile container never number more than
\* MAX_NODES + 3, and a scroll event that finds more than MAX_NODES drawn
\* discards them all and redraws exactly the window of the current index.
C15_BoundedTiles ==
  /\ Len(tiles.canvases) <= MAX_NODES + 3
  /\ Cardinality(tiles.drawnIndexes) <= MAX_NODES + 3
  /\ (obs.scrolled # Null /\ Val(obs.scrolled).drawn > MAX_NODES) =>
       /\ tiles.drawnIndexes = Window(Val(obs.scrolled).canvasIndex)
       /\ SeqToSet(tiles.canvases) = Window(Val(obs.scrolled).canvasIndex)
       /\ Len(tiles.canvases) = Cardinality(Window(Val(obs.scrolled).canvasIndex))

\* A scroll event found MAX_NODES + 3 tiles drawn and left the three of its
\* window.
C15_Witness ==
  /\ obs.scrolled # Null
  /\ Val(obs.scrolled).drawn = MAX_NODES + 3
  /\ Len(tiles.canvases) = 3

\* C16, as amended: while content is scrollable a tile is drawn only when its
\* index is within one of the index of the scroll offset at that moment;
\* tiles drawn for earlier offsets stay drawn until the bulk clear.
C16_DrawnInsideWindow ==
  \A i \in 1..Len(obs.draws) :
    obs.draws[i].scrollable =>
      /\ obs.draws[i].index >= obs.draws[i].canvasIndex - 1
      /\ obs.draws[i].index <= obs.draws[i].canvasIndex + 1

\* C16, as stated: while content is scrollable the drawn tile indexes are
\* contained in the window of the current scroll offset, after every scroll.
C16_AsStated ==
  (r.isScrollable /\ obs.scrolled # Null) =>
    SeqToSet(tiles.canvases) \subseteq Window(Val(obs.scrolled).canvasIndex)

\* A scroll event drew the three tiles of its window beside tiles drawn
\* before it.
C16_Witness ==
  /\ r.isScrollable
  /\ obs.scrolled # Null
  /\ Len(obs.draws) = 3
  /\ Len(tiles.canvases) > 3

\* The total width a pass lays out, and the tile width by its definition:
\* min(MAX_CANVAS_WIDTH, client width, total width), less its remainder
\* modulo the bar period when bar options are set.
LaidOutWidth == IF dom.wrapperFill THEN dom.clientWidth ELSE dom.wrapperPx
TileWidth ==
  LET limit == MinInt(MAX_CANVAS_WIDTH, MinInt(dom.clientWidth, LaidOutWidth))
  IN IF HasBars(opt) THEN limit - (limit % TotalBarWidth(opt)) ELSE limit
\* ceil(total width / tile width): the least n with n tiles covering the width
TileCount ==
  CHOOSE n \in 0..(LaidOutWidth \div TileWidth + 1) :
    n * TileWidth >= LaidOutWidth /\ (n - 1) * TileWidth < LaidOutWidth
\* The width left for tile i on the bar grid
TileExtent(i) ==
  LET w == MinInt(LaidOutWidth - i * TileWidth, TileWidth)
  IN IF HasBars(opt) THEN w - (w % TotalBarWidth(opt)) ELSE w
Increasing(q) == \A i \in 1..(Len(q) - 1) : q[i] < q[i + 1]

\* C17, as amended: when content is not scrollable a render draws, once each
\* and in increasing order, the tile indexes of 0..n-1 whose width on the bar
\* grid is positive, where n = ceil(totalWidth / tileWidth); nothing is drawn
\* when tileWidth is 0.
C17_EagerTiles ==
  (r.audioData /\ ~r.isScrollable) =>
    IF TileWidth = 0 THEN tiles.canvases = <<>>
    ELSE /\ tiles.numCanvases = TileCount
         /\ Increasing(tiles.canvases)
         /\ SeqToSet(tiles.canvases) = {i \in 0..(TileCount - 1) : TileExtent(i) > 0}

\* C17, as stated: every tile index 0..n-1 is drawn, in increasing order.
C17_AsStated ==
  (r.audioData /\ ~r.isScrollable /\ TileWidth > 0) =>
    tiles.canvases = [i \in 1..TileCount |-> i - 1]

\* A 20000px host filled by three tiles of 8000px, 8000px and 4000px.
C17_Witness ==
  /\ r.audioData
  /\ ~r.isScrollable
  /\ TileWidth = MAX_CANVAS_WIDTH
  /\ tiles.canvases = <<0, 1, 2>>

C19_ThrowsBeforeMount ==
  obs.constructed # Null =>
    LET c == Val(obs.constructed)
    IN /\ c.threw = ~(\/ (c.container.type = "string" /\ c.container.matches)
                      \/ c.container.type = "element")
       /\ c.threw =>
            /\ ~dom.mounted
            /\ ~r.parent
            /\ ~r.domSubscriptions
            /\ trackers = <<>>
            /\ ~r.resizeObserver
            /\ ~r.timeouts
            /\ ~lenis.alive
       /\ ~c.threw => (dom.mounted /\ r.domSubscriptions /\ lenis.alive)

\* The constructor threw for a selector that matches nothing, with
\* dragToSeek set.
C19_Witness ==
  /\ obs.constructed # Null
  /\ Val(obs.constructed).threw
  /\ Val(obs.constructed).container = [type |-> "string", matches |-> FALSE]
  /\ opt.dragToSeek

\* C20: zoom(k) on a waveform rendered at minPxPerSec = k leaves the
\* scrollable width, isScrollable and the scroll offset as they were, and
\* with them the cursor's position on the screen.
C20_ZoomRoundTrip ==
  (obs.zoom # Null /\ Val(obs.zoom).same) =>
    /\ ScrollWidth(State) = Val(obs.zoom).scrollWidth
    /\ r.isScrollable = Val(obs.zoom).isScrollable
    /\ dom.scrollLeft = Val(obs.zoom).scrollLeft
    /\ CursorX(State) = Val(obs.zoom).cursorX

\* zoom(70) on the waveform rendered at 70 px/s and scrolled to 1600px.
C20_Witness ==
  /\ obs.zoom # Null
  /\ Val(obs.zoom).same
  /\ opt.minPxPerSec = 70
  /\ r.isScrollable
  /\ dom.scrollLeft = 160000
  /\ Len(tiles.canvases) = 3

\* C21: a tracker session calls onStart only for a pointer more than the
\* threshold away from the pointer-down position, once (it was not dragging
\* before) and with the pointer-down position relative to the element; it
\* calls onDrag and onEnd only after onStart; and a session released after it
\* processed a move beyond the threshold has called onStart.
C21_StartOnceBeyondThreshold ==
  \A i \in 1..Len(obs.gesture) :
    LET g == obs.gesture[i]
    IN /\ g.cb = "start" => (~g.dragging /\ g.x = g.origin /\ g.beyond)
       /\ g.cb \in {"drag", "end"} => g.dragging
       /\ (g.cb = "up" /\ g.beyond) => g.dragging

\* C22: a session that handles a release (pointerup, pointercancel, or a
\* pointerout to outside the document) calls onEnd right then exactly when it
\* had called onStart, and no session calls onEnd twice: every onEnd follows
\* the release of its session, which was dragging and had not ended, and
\* every release of a dragging session is its first and is followed by its
\* onEnd.
C22_EndIffDragging ==
  \A i \in 1..Len(obs.gesture) :
    LET g == obs.gesture[i]
    IN /\ g.cb = "end" =>
            /\ g.dragging
            /\ ~g.ended
            /\ i > 1
            /\ obs.gesture[i - 1].cb = "up"
            /\ obs.gesture[i - 1].sid = g.sid
       /\ (g.cb = "up" /\ g.dragging) =>
            /\ ~g.ended
            /\ i < Len(obs.gesture)
            /\ obs.gesture[i + 1].cb = "end"
            /\ obs.gesture[i + 1].sid = g.sid

\* C24: the click dispatched right after a pointerup over the wrapper emits
\* no click event when the gesture released (the session of the latest
\* pointerdown) had entered dragging, and emits exactly one when the gesture
\* had stayed within the threshold.
C24_ClickAfterGesture ==
  obs.click # Null =>
    LET c == Val(obs.click)
    IN /\ (c.session /\ c.dragging) => EmittedAt("click") = {}
       /\ (c.session /\ ~c.dragging /\ ~c.beyond) =>
            Cardinality(EmittedAt("click")) = 1

\* Every function makeDraggable returned has been called.
Unsubscribed ==
  trackers # <<>> /\ \A t \in 1..Len(trackers) : ~trackers[t].attached

\* The frame callbacks the trackers' sessions have pending
TrackerFrames == {e \in SeqToSet(raf) : e.kind = "drag"}

\* C23: once the unsubscribe function of every tracker has been called, no
\* session holds pointer listeners on the document, no pointerdown listener
\* is on the wrapper, and no task calls onStart, onDrag or onEnd; a second
\* call changes neither the listeners nor the sessions' frame callbacks.
C23_NothingAfterUnsubscribe ==
  /\ [](Unsubscribed =>
          /\ ListeningSessions = {}
          /\ \A i \in 1..Len(obs.gesture) :
               obs.gesture[i].cb \notin {"start", "drag", "end"})
  /\ [][DestroyAgain => UNCHANGED <<trackers, sessions, TrackerFrames>>]_vars

\* C25: whenever 'drag' is emitted with p, the cursor's position and the
\* progress overlay's width, as fractions of the content width, both equal p
\* at that moment.
C25_CursorAtEmittedProgress ==
  \A i \in 1..Len(obs.drags) :
    /\ obs.drags[i].cursor = obs.drags[i].p
    /\ obs.drags[i].progress = obs.drags[i].p

\* The tile indexes of the draws logged after the k-th entry of the log.
RECURSIVE DrawsAfter(_)
DrawsAfter(k) ==
  IF k >= Len(obs.emitted) THEN <<>>
  ELSE IF obs.emitted[k + 1].ev = "draw"
         THEN <<obs.emitted[k + 1].p.n>> \o DrawsAfter(k + 1)
         ELSE DrawsAfter(k + 1)

C27_OneGeneration == ~tiles.earlier /\ ~obs.stale

\* C28: no task in which the Renderer assigns the scroll offset itself runs
\* while the inertial scroll controller exists: every change of the offset
\* goes through the controller's scrollTo.
C28_ScrollThroughController == ~obs.direct

\* The drag session of the Renderer: the drag progress, the real-time
\* progress, the cached wrapper geometry and the last pointer X.
SessionCleared ==
  /\ r.dragRelativeX = Null
  /\ r.realTimeProgress = Null
  /\ r.wrapperRect = Null
  /\ r.lastDragMouseX = Null

\* C29: whenever no drag is active (before the first dragstart and after each
\* dragend) the four fields of the drag session are null, and the cached
\* geometry is set only by a task that emits dragstart, once for each
\* gesture that starts.
C29_SessionWithinGesture ==
  /\ [](~r.isDragging => SessionCleared)
  /\ [](\A i, j \in 1..Len(obs.gesture) :
          obs.gesture[i].cb = "start" /\ obs.gesture[j].cb = "start"
            /\ obs.gesture[i].sid = obs.gesture[j].sid => i = j)
  /\ [][r.wrapperRect' # Null /\ r.wrapperRect' # r.wrapperRect
          => EmittedAt("dragstart")' # {}]_vars

\* The drag progress the auto-scroll tick computes from the geometry of the
\* wrapper as it is now: clamp((lastDragMouseX - left) / width, 0, 1).
LiveProgress ==
  clamp(JsDiv(Val(r.lastDragMouseX) - WrapperLeft(State), WrapperWidth(State)),
        Zero, One)

LastWriter == obs.writers[Len(obs.writers)]

\* C30: a frame whose auto-scroll tick wrote the drag progress leaves the
\* progress the tick recomputed from the last pointer X and the live
\* geometry, also when a drag callback wrote it in the same frame.
C30_TickWritesLast ==
  (\E i \in 1..Len(obs.writers) : obs.writers[i] = "tick") =>
    /\ LastWriter = "tick"
    /\ r.lastDragMouseX # Null
    /\ r.dragRelativeX = Some(LiveProgress)

\* A tick that scrolled the waveform and left a progress strictly inside
\* (0, 1).
C30_Witness ==
  /\ obs.writers = <<"tick">>
  /\ dom.scrollLeft > 0
  /\ r.dragRelativeX = Some(LiveProgress)
  /\ Less(Zero, LiveProgress) /\ Less(LiveProgress, One)

ScrollLoops == {e \in SeqToSet(raf) : e.kind = "scroll"}

\* The speed updateContinuousScroll computes for a pointer at x in the right
\* edge zone: Math.max(2, edgeProximity * 12).
ProximitySpeed(x) ==
  ScrollSpeed(x - CONTAINER_LEFT - (VIEWPORT_WIDTH - EdgeZone), EdgeZone)

\* The per-frame step of a pending auto-scroll loop lies between 30% and 100%
\* of the loop's maximum.
RampInRange ==
  \A e \in ScrollLoops :
    /\ (e.maxSpeed * 3) \div 10 <= e.currentSpeed
    /\ e.currentSpeed <= e.maxSpeed

\* A frame that continues a loop raises its step by the fixed increment, up
\* to the maximum.
RampStep ==
  \A e \in ScrollLoops, f \in ScrollLoops' :
    f.ticks = e.ticks + 1 =>
      /\ f.maxSpeed = e.maxSpeed
      /\ f.currentSpeed = MinInt(e.currentSpeed + ACCELERATION, e.maxSpeed)
      /\ f.currentSpeed >= e.currentSpeed

\* The maximum of a pending loop is the one the pointer's last position gives.
RampMaxCurrent ==
  \A e \in ScrollLoops :
    r.lastDragMouseX # Null /\ r.continuousScrollDirection = "right"
      => e.maxSpeed = ProximitySpeed(Val(r.lastDragMouseX))

\* C31: the auto-scroll step starts at 30% of the proximity-scaled maximum,
\* grows by the fixed increment each frame without exceeding the maximum, and
\* the maximum follows the pointer's current edge proximity.
C31_SpeedRamp ==
  /\ [](RampInRange /\ RampMaxCurrent)
  /\ [][RampStep]_vars

\* C32: once the Renderer is constructed and until it is destroyed, the
\* inertial scroll controller built by the constructor is the live one: no
\* render, reRender, zoom or setOptions builds another, and never is more
\* than one instance alive.
C32_OneController ==
  /\ lenis.live <= 1
  /\ lenis.alive <=> lenis.live = 1
  /\ r.parent /\ dom.mounted => lenis.alive /\ lenis.instance = 1

\* A render pass that ran while the controller was easing towards a target
\* and left controller and target in place.
C32_Witness ==
  /\ EmittedAt("render") # {}
  /\ lenis.alive /\ lenis.instance = 1
  /\ lenis.target # Null

ResizeWaits == {t \in timers : t.kind = "resize"}

\* C33: however many resize notifications arrive before the idle callback
\* runs, one wait is pending, that of the last notification; the waits
\* before it were cancelled without an error, and the callback that runs
\* re-renders at most once, and not at all before the first render().
C33_ResizeDebounced ==
  /\ Cardinality(ResizeWaits) <= 1
  /\ \A t \in ResizeWaits : t.id = r.resizeId
  /\ obs.resized # Null => ResizeWaits # {} /\ obs.fault = "none"
  /\ \A i \in 1..Len(obs.callbacks) :
       obs.callbacks[i].kind = "resize" =>
         /\ Cardinality(EmittedAt("render")) <= 1
         /\ ~r.audioData => EmittedAt("render") = {}
         /\ obs.fault = "none"

\* After the first render(), a notification that found the wait of the
\* notification before it pending and left one wait.
C33_Witness ==
  /\ r.audioData
  /\ obs.resized = Some([pending |-> TRUE])
  /\ Cardinality(ResizeWaits) = 1


----------------------------------------------------------------------------
(* The throttle and the movement threshold of the tracker of part_004 *)

\* The calls of onDrag a task made
DragCalls == {i \in 1..Len(obs.gesture) : obs.gesture[i].cb = "drag"}

\* A pointermove that came sooner than MIN_DRAG_INTERVAL after the sample
\* before it
TooSoon(o) == o.sampled # Null /\ Val(o.sampled) < MIN_DRAG_INTERVAL

\* A move that comes too soon calls nothing, and an onDrag call is made with
\* an accumulated displacement beyond the movement threshold; between the
\* moves the accumulator of a session is within the threshold.
DragBeyondThreshold ==
  /\ TooSoon(obs) => obs.gesture = <<>> /\ obs.accumulated = Null
  /\ DragCalls # {} =>
        obs.accumulated # Null /\ Abs(Val(obs.accumulated)) > MIN_MOVEMENT_THRESHOLD
  /\ \A i \in 1..Len(sessions) :
        Abs(sessions[i].accumulatedDx) <= MIN_MOVEMENT_THRESHOLD

\* A move that comes too soon leaves every session as it was, and a session
\* that calls onDrag leaves its accumulator at zero.
MoveStepThrottled ==
  \A i \in 1..Len(sessions), j \in 1..Len(sessions') :
    sessions[i].sid = sessions'[j].sid =>
      /\ TooSoon(obs') => sessions'[j] = sessions[i]
      /\ (\E k \in 1..Len(obs'.gesture) :
            obs'.gesture[k].cb = "drag" /\ obs'.gesture[k].sid = sessions[i].sid)
           => sessions'[j].accumulatedDx = 0

\* C34: while dragging, a pointermove is processed only if at least
\* MIN_DRAG_INTERVAL has passed since the last processed move, onDrag is
\* called only when the accumulated damped horizontal displacement exceeds
\* MIN_MOVEMENT_THRESHOLD in magnitude, and the accumulator is zero after
\* each onDrag call.
C34_ThrottleAndThreshold == []DragBeyondThreshold /\ [][MoveStepThrottled]_vars

\* A session that was dragging already takes a move past the throttle and
\* calls onDrag.
C34_Witness ==
  /\ obs.sampled # Null /\ Val(obs.sampled) >= MIN_DRAG_INTERVAL
  /\ DragCalls # {}
  /\ \A k \in 1..Len(obs.gesture) : obs.gesture[k].cb = "drag"
  /\ \E i \in 1..Len(sessions) : sessions[i].isDragging /\ sessions[i].accumulatedDx = 0


----------------------------------------------------------------------------
(* setOptions(): the drag trackers and the container *)

\* The makeDraggable subscriptions on the wrapper
Subscribed == {t \in 1..Len(trackers) : trackers[t].attached}

\* C35: after any sequence of setOptions calls at most one drag tracker is
\* subscribed on the wrapper, and one is subscribed only if the options in
\* force enable drag-to-seek.
C35_OneTracker ==
  /\ Cardinality(Subscribed) <= 1
  /\ Subscribed # {} => opt.dragToSeek

\* A setOptions call that threw
Threw(o) == o.setOptions # Null /\ Val(o.setOptions).threw

\* C40: a setOptions call whose container cannot be resolved throws and
\* leaves the Renderer as it was: the options, the parent, the trackers and
\* everything else keep their values, and nothing is emitted or drawn.
C40_ThrowLeavesUnchanged ==
  [][Threw(obs') =>
       /\ UNCHANGED <<variant, opt, r, dom, lenis, raf, timers, trackers,
                      sessions, tiles>>
       /\ obs'.emitted = <<>> /\ obs'.draws = <<>> /\ obs'.rendering = Null
       /\ ~ParentFromOptionsContainer(Val(obs'.setOptions).container)]_vars

\* A call with an unresolvable container has thrown on a Renderer that has a
\* parent, a tracker and options with drag-to-seek.
C40_Witness ==
  /\ Threw(obs)
  /\ r.parent /\ opt.dragToSeek /\ Subscribed # {}
  /\ ParentFromOptionsContainer(opt.container)


----------------------------------------------------------------------------
(* The Renderer's frame loops and its cool-down timer *)

\* The handles of the pending frame callbacks of a kind, and of the pending
\* interaction timers
PendingFrames(kind) == {raf[i].id : i \in {j \in 1..Len(raf) : raf[j].kind = kind}}
PendingCount(kind) == Cardinality({j \in 1..Len(raf) : raf[j].kind = kind})
PendingCoolDowns == {t \in timers : t.kind = "interaction"}

\* C36: at most one cursor-follow frame callback, at most one auto-scroll
\* frame callback and at most one interaction cool-down timer is pending, and
\* the pending one is the one whose handle the Renderer holds (the one
\* started last: each start cancels the one before).
C36_OnePending ==
  /\ PendingCount("cursor") <= 1
  /\ PendingFrames("cursor") \subseteq {r.animationFrameId} \ {0}
  /\ PendingCount("scroll") <= 1
  /\ PendingFrames("scroll") \subseteq {r.continuousScrollInterval} \ {0}
  /\ Cardinality(PendingCoolDowns) <= 1
  /\ \A t \in PendingCoolDowns : t.id = r.interactionTimeout

\* All three are pending at once.
C36_Witness ==
  /\ PendingCount("cursor") = 1
  /\ PendingCount("scroll") = 1
  /\ Cardinality(PendingCoolDowns) = 1


----------------------------------------------------------------------------
(* The tiles of one render pass *)

\* C37: every tile drawn in a pass has an index in 0 .. numCanvases - 1, the
\* canvas container holds no two canvases of one index, and it holds only
\* canvases of indexes recorded in drawnIndexes, so never more canvases than
\* recorded indexes.
C37_TilesDrawnOnce ==
  /\ \A i \in 1..Len(obs.draws) :
        obs.draws[i].index \in 0..(tiles.numCanvases - 1)
  /\ \A i, j \in 1..Len(tiles.canvases) :
        tiles.canvases[i] = tiles.canvases[j] => i = j
  /\ SeqToSet(tiles.canvases) \subseteq tiles.drawnIndexes
  /\ tiles.drawnIndexes \subseteq 0..(tiles.numCanvases - 1)
  /\ Len(tiles.canvases) <= Cardinality(tiles.drawnIndexes)

\* A scroll whose subscriber cleared the containers has drawn tile 0, which
\* the pass had drawn before the clear, once more.
C37_Witness ==
  /\ obs.scrolled # Null
  /\ Val(obs.scrolled).drawn > MAX_NODES
  /\ \E i \in 1..Len(obs.draws) : obs.draws[i].index = 0
  /\ Len(tiles.canvases) = Cardinality(tiles.drawnIndexes)


----------------------------------------------------------------------------
(* The samples of the tiles *)

\* C38: without bar options the sample ranges of the tiles partition the
\* channel: tile 0 starts at sample 0, each tile ends where the next one
\* starts, and the last tile ends at the last sample.
C38_TilesPartitionSamples ==
  (obs.slices # Null /\ ~HasBars(opt)) =>
    LET ranges == Val(obs.slices).ranges
        n == tiles.numCanvases
    IN /\ ranges[0].start = 0
       /\ \A i \in 0..(n - 2) : ranges[i].end = ranges[i + 1].start
       /\ ranges[n - 1].end = Val(obs.slices).length
       /\ \A i \in 0..(n - 1) : ranges[i].start <= ranges[i].end

\* A channel of more samples than tiles sliced over 15 tiles, no bars.
C38_Witness ==
  /\ obs.slices # Null /\ ~HasBars(opt)
  /\ tiles.numCanvases = 15
  /\ Val(obs.slices).length = 1000
  /\ Val(obs.slices).ranges[7].start > 0


----------------------------------------------------------------------------
(* The offsets of the auto-scroll *)

\* C39: every scroll offset an auto-scroll tick asks for lies between 0 and
\* scrollWidth - clientWidth, whatever the direction, the speed and the
\* offset before.
C39_TickWithinRange ==
  obs.requested # Null =>
    /\ Val(obs.requested).offset >= 0
    /\ Val(obs.requested).offset <= Val(obs.requested).max
    /\ Val(obs.requested).max = MaxScrollLeft(State)

\* A tick to the right whose step would pass the end of the content has asked
\* for the last offset.
C39_Witness ==
  /\ obs.requested # Null
  /\ Val(obs.requested).raw > Val(obs.requested).max
  /\ Val(obs.requested).offset = Val(obs.requested).max
  /\ Val(obs.requested).max > 0

\* A tick to the left at the start of the content has asked for offset 0.
C39_WitnessLeft ==
  /\ obs.requested # Null
  /\ Val(obs.requested).raw < 0
  /\ Val(obs.requested).offset = 0

====
